---- MODULE Spec2Model ----
(***************************************************************************)
(* Sovereign Watch: ingestion -> sanitization -> aggregation -> fallback   *)
(* resolution pipeline, with the in-memory rate limiter.                   *)
(*                                                                         *)
(* Three specifications share the variables of this module:                *)
(*   SpecRL      the rate limiter (checkRateLimit, cleanupExpiredEntries)  *)
(*   SpecIngest  the /api/cron/ingest job, run after run                   *)
(*   SpecRoutes  the read routes /maturity-wall, /auctions, /debt          *)
(***************************************************************************)
EXTENDS Integers, Sequences, FiniteSets, TLC

\* JavaScript null / undefined
Null == "null_value"

\* ------------------------------------------------------------------------
\* JavaScript values.  A value is a record that carries its type, so that
\* values of different types can be compared:
\*   JsNull          null or undefined
\*   Str(s)          a string, s a TLA+ string
\*   Chars(c)        a string given as the tuple c of its characters (the raw
\*                   numeric fields, which the sanitizer parses)
\*   IsoDate(n)      the string "YYYY-MM-DD", n = YYYYMMDD; the order of these
\*                   strings is the order of the numbers
\*   IsoDateTime(n)  the string "YYYY-MM-DDT00:00:00.000Z"
\*   Num(n)          a number, in hundredths (1250.50 is Num(125050))
\*   Whole(n)        a whole number (a year)
\*   NaN             the number NaN
\* ------------------------------------------------------------------------
JsNull == [nul |-> TRUE]
Str(s) == [str |-> s]
Chars(c) == [chars |-> c]
IsoDate(n) == [date |-> n]
IsoDateTime(n) == [datetime |-> n]
Num(n) == [num |-> n]
Whole(n) == [int |-> n]
NaN == [nan |-> TRUE]

IsDate(v) == DOMAIN v = {"date"}
\* JavaScript truthiness of a string-or-null value (!value is its negation)
Truthy(v) == v \notin {JsNull, Str(""), Chars(<<>>)}

\* ------------------------------------------------------------------------
\* Bounds of the model
\* ------------------------------------------------------------------------

\* the clock (Date.now(), ms) advances at most MaxTicks times
MaxTicks == 4

\* ingest requests made in a behaviour
MaxRuns == 2

\* fetches and statements that may throw in a behaviour of repeated runs
MaxFaults == 1

\* rows per INSERT statement of the ingest job.  The job passes 500 to
\* chunkArray; the feeds of the model hold a handful of records, and the
\* chunk size is scaled with them so that a batch still spans several chunks.
ChunkSize == 2

\* read requests served in a behaviour; what earlier requests leave behind
\* (a full limiter window, the cached store handle) is part of the initial
\* states
MaxRequests == 1

\* requests of one client in a behaviour of concurrent requests, each with
\* its handler; all of them can be suspended at the same time
MaxHandlers == 3

\* records in a batch handed to a sanitizer or an aggregator called on its own
MaxRecords == 3

\* bits of the significand of a number.  A double has 53; the model's
\* integers have 31, and the significand is scaled down with them so that a
\* sum of the model's amounts can need rounding as a sum of doubles can.
MantissaBits == 20

\* pages fetchAllPages requests in a behaviour; an upstream that goes on
\* saying there is a next page leaves it waiting to request the page after
MaxPages == 3

\* ------------------------------------------------------------------------
\* State
\* ------------------------------------------------------------------------
VARIABLES
  now,              \* Date.now()
  ticks,            \* how many times the clock has advanced
  lastCleanup,      \* treasury-client.ts:462  let lastCleanup
  rateLimitStore,   \* treasury-client.ts:458  Map<string, RateLimitEntry>
  rlLast,           \* the last checkRateLimit call: its arguments and result
  allowedInWindow,  \* history: calls allowed for a key since its window began
  unsweptStore,     \* history: the map of a limiter given the same calls that never sweeps
  dbEnv,            \* db module: isDatabaseConfigured, skipDatabase
  dbHandle,         \* db module: let _db
  dbCreations,      \* history: how many times createDb() returned a handle
  dbFailures,       \* history: how many times createDb() threw
  upstream,         \* what the fiscal-data service holds: "full" or "empty"
  treasurySecurities,   \* table treasury_securities
  treasuryAuctions,     \* table treasury_auctions
  dailyDebtSnapshots,   \* table daily_debt_snapshots
  economicIndicators,   \* table economic_indicators
  maturityWallAggregates, \* table maturity_wall_aggregates
  etlJobLog,            \* table etl_job_log
  cronEnv,          \* process.env: NODE_ENV, CRON_SECRET
  pc,               \* ingest run -> where its handler is suspended
  authHeader,       \* ingest run -> Authorization header of its request
  results,          \* ingest run -> the handler's `results` object
  loc,              \* ingest run -> the handler's other locals
  inflight,         \* ingest run -> indicator feeds whose fetch has not settled
  response,         \* ingest run -> the response returned
  trace,            \* history: ingest run -> step starts and ends, in order
  io,               \* history: ingest run -> kinds of I/O it has issued
  faults,           \* history: fetches and statements that threw, up to MaxFaults
  routeLast,        \* the last read request: its route, response and what it met
  requests,         \* history: how many read requests have been served
  handlers,         \* concurrent read requests: handler -> the await it is suspended at
  call,             \* the last call of a sanitizer or aggregator: function, input, result
  pager             \* a fetchAllPages call: its locals, position and history

rlVars == <<now, ticks, lastCleanup, rateLimitStore, rlLast, allowedInWindow, unsweptStore>>

dbVars == <<dbEnv, dbHandle, dbCreations, dbFailures>>

tableVars == <<treasurySecurities, treasuryAuctions, dailyDebtSnapshots,
               economicIndicators, maturityWallAggregates, etlJobLog>>

jobVars == <<cronEnv, pc, authHeader, results, loc, inflight, response, trace, io, faults>>

routeVars == <<routeLast, requests, handlers, call, pager>>

vars == <<rlVars, dbVars, upstream, routeVars, tableVars, jobVars>>

\* ------------------------------------------------------------------------
\* Rate limiter
\* ------------------------------------------------------------------------

CLEANUP_INTERVAL == 60000

\* the pre-configured limiters
RATE_LIMITS ==
  [chat   |-> [interval |-> 60000, limit |-> 20],
   data   |-> [interval |-> 60000, limit |-> 60],
   health |-> [interval |-> 60000, limit |-> 120]]

\* keys of the map absent from it
NoEntry == [count |-> 0, timestamp |-> -1]

\* the limiter is exercised with three identifiers, each always checked with
\* its own configuration; the intervals differ so that a sweep run on behalf
\* of one identifier sees the entries of the others
Identifiers == {"idA", "idB", "idC"}

ConfigOf ==
  [idA |-> [interval |-> 1000,  limit |-> 3],
   idB |-> [interval |-> 60000, limit |-> 2],
   idC |-> [interval |-> 90000, limit |-> 1]]

\* the identifiers, and the keys of the rate-limited routes:
\* `${route}:${clientId}`
Keys == Identifiers \cup {"maturity-wall:c1", "auctions:c1"}

\* amounts by which the clock advances between two calls
TimeSteps == {600, 60000}

\* now - entry.timestamp > interval
WindowExpired(entry, t, interval) == t - entry.timestamp > interval

\* cleanupExpiredEntries(interval): throttled sweep of the whole map, judged
\* with the interval of the caller
cleanupExpiredEntries(store, last, t, interval) ==
  IF t - last < CLEANUP_INTERVAL
  THEN [store |-> store, lastCleanup |-> last]
  ELSE [store |-> [k \in DOMAIN store |->
                     IF store[k] # NoEntry /\ WindowExpired(store[k], t, interval)
                     THEN NoEntry ELSE store[k]],
        lastCleanup |-> t]

\* the three branches of checkRateLimit on the entry read before the sweep
CheckOutcomeOffByOne(entry, t, config) ==
  IF entry = NoEntry \/ WindowExpired(entry, t, config.interval)
  THEN [allowed |-> TRUE, remaining |-> config.limit - 1,
        resetIn |-> config.interval,
        write |-> TRUE, entry |-> [count |-> 1, timestamp |-> t]]
  ELSE IF entry.count > config.limit
  THEN [allowed |-> FALSE, remaining |-> 0,
        resetIn |-> config.interval - (t - entry.timestamp),
        write |-> FALSE, entry |-> entry]
  ELSE [allowed |-> TRUE, remaining |-> config.limit - (entry.count + 1),
        resetIn |-> config.interval - (t - entry.timestamp),
        write |-> TRUE,
        entry |-> [count |-> entry.count + 1, timestamp |-> entry.timestamp]]

CheckOutcome(entry, t, config) ==
  IF entry = NoEntry \/ WindowExpired(entry, t, config.interval)
  THEN [allowed |-> TRUE, remaining |-> config.limit - 1,
        resetIn |-> config.interval,
        write |-> TRUE, entry |-> [count |-> 1, timestamp |-> t]]
  ELSE IF entry.count >= config.limit
  THEN [allowed |-> FALSE, remaining |-> 0,
        resetIn |-> config.interval - (t - entry.timestamp),
        write |-> FALSE, entry |-> entry]
  ELSE [allowed |-> TRUE, remaining |-> config.limit - (entry.count + 1),
        resetIn |-> config.interval - (t - entry.timestamp),
        write |-> TRUE,
        entry |-> [count |-> entry.count + 1, timestamp |-> entry.timestamp]]

\* checkRateLimit(identifier, config): reads the entry, sweeps, decides, and
\* stores the new entry; returns {allowed, remaining, resetIn}
\* the write of a call is lost while another handler is suspended, as if
\* the call had been suspended between its read and its write
RateLimitStepLostUpdate(store, last, t, identifier, config) ==
  LET entry == store[identifier]
      swept == cleanupExpiredEntries(store, last, t, config.interval)
      out   == CheckOutcome(entry, t, config)
  IN  [store |-> IF out.write /\ \A h \in DOMAIN handlers : handlers[h] \notin {"store", "fetch"}
                 THEN [swept.store EXCEPT ![identifier] = out.entry]
                 ELSE swept.store,
       lastCleanup |-> swept.lastCleanup,
       result |-> [allowed |-> out.allowed, remaining |-> out.remaining,
                   resetIn |-> out.resetIn]]

RateLimitStep(store, last, t, identifier, config) ==
  LET entry == store[identifier]
      swept == cleanupExpiredEntries(store, last, t, config.interval)
      out   == CheckOutcome(entry, t, config)
  IN  [store |-> IF out.write
                 THEN [swept.store EXCEPT ![identifier] = out.entry]
                 ELSE swept.store,
       lastCleanup |-> swept.lastCleanup,
       result |-> [allowed |-> out.allowed, remaining |-> out.remaining,
                   resetIn |-> out.resetIn]]

NoCall == [identifier |-> Null]

checkRateLimit(identifier, config) ==
  LET entry == rateLimitStore[identifier]
      noLive == entry = NoEntry \/ now - entry.timestamp > config.interval
      step  == RateLimitStep(rateLimitStore, lastCleanup, now, identifier, config)
      plain == CheckOutcome(unsweptStore[identifier], now, config)
  IN  /\ rateLimitStore' = step.store
      /\ lastCleanup' = step.lastCleanup
      /\ unsweptStore' = IF plain.write
                         THEN [unsweptStore EXCEPT ![identifier] = plain.entry]
                         ELSE unsweptStore
      /\ rlLast' = [identifier |-> identifier, config |-> config, at |-> now,
                    result |-> step.result,
                    unswept |-> [allowed |-> plain.allowed, remaining |-> plain.remaining,
                                 resetIn |-> plain.resetIn],
                    noLiveWindow |-> noLive,
                    allowedBefore |-> allowedInWindow[identifier]]
      /\ allowedInWindow' =
           [allowedInWindow EXCEPT ![identifier] =
              IF noLive THEN 1
              ELSE IF step.result.allowed THEN @ + 1 ELSE @]

\* a caller checks one of the identifiers
RLCall(identifier) ==
  /\ checkRateLimit(identifier, ConfigOf[identifier])
  /\ UNCHANGED <<now, ticks, dbVars, upstream, routeVars, tableVars, jobVars>>

\* time passes
Tick(d) ==
  /\ ticks < MaxTicks
  /\ ticks' = ticks + 1
  /\ now' = now + d
  /\ UNCHANGED <<lastCleanup, rateLimitStore, rlLast, allowedInWindow, unsweptStore>>
  /\ UNCHANGED <<dbVars, upstream, routeVars, tableVars, jobVars>>

RLStart ==
  /\ now = 0
  /\ ticks = 0
  /\ lastCleanup = 0
  /\ rateLimitStore = [k \in Keys |-> NoEntry]
  /\ unsweptStore = rateLimitStore
  /\ rlLast = NoCall
  /\ allowedInWindow = [k \in Keys |-> 0]

\* ------------------------------------------------------------------------
\* Sanitizer
\* ------------------------------------------------------------------------

Digits == {"0", "1", "2", "3", "4", "5", "6", "7", "8", "9"}

DigitVal(c) ==
  CASE c = "0" -> 0 [] c = "1" -> 1 [] c = "2" -> 2 [] c = "3" -> 3
    [] c = "4" -> 4 [] c = "5" -> 5 [] c = "6" -> 6 [] c = "7" -> 7
    [] c = "8" -> 8 [] c = "9" -> 9

Whitespace == {" "}

Drop(c, n) == SubSeq(c, n + 1, Len(c))

\* length of the longest prefix of c made of characters of set S
RECURSIVE PrefixIn(_, _)
PrefixIn(c, S) ==
  IF c = <<>> \/ Head(c) \notin S THEN 0 ELSE 1 + PrefixIn(Tail(c), S)

\* the number written by a tuple of digits
RECURSIVE DigitsValue(_)
DigitsValue(c) ==
  IF c = <<>> THEN 0 ELSE 10 * DigitsValue(SubSeq(c, 1, Len(c) - 1)) + DigitVal(c[Len(c)])

\* String.prototype.trim
trim(c) ==
  LET lead == PrefixIn(c, Whitespace)
      rest == Drop(c, lead)
      RECURSIVE TrailIn(_)
      TrailIn(r) == IF r = <<>> \/ r[Len(r)] \notin Whitespace THEN 0
                    ELSE 1 + TrailIn(SubSeq(r, 1, Len(r) - 1))
  IN  SubSeq(rest, 1, Len(rest) - TrailIn(rest))

\* parseFloat: leading whitespace, an optional sign, digits, an optional
\* fraction; the longest such prefix is the number and whatever follows is
\* ignored; NaN when the prefix holds no digit.  The result is in hundredths
\* (fraction digits after the second are dropped; no exponents).  The scan
\* is written as one operator per part of the number, each handing the rest
\* of the text to the next.
ParseFraction(neg, s1, nInt, frac) ==
  IF nInt = 0 /\ frac = <<>> THEN NaN
  ELSE Num((IF neg THEN -1 ELSE 1)
           * (100 * DigitsValue(SubSeq(s1, 1, nInt))
              + 10 * (IF Len(frac) >= 1 THEN DigitVal(frac[1]) ELSE 0)
              + (IF Len(frac) >= 2 THEN DigitVal(frac[2]) ELSE 0)))

ParseUnsigned(neg, s1, s2) ==
  ParseFraction(neg, s1, PrefixIn(s1, Digits),
                IF s2 # <<>> /\ Head(s2) = "."
                THEN SubSeq(Tail(s2), 1, PrefixIn(Tail(s2), Digits)) ELSE <<>>)

ParseSigned(s0) ==
  ParseUnsigned(s0 # <<>> /\ Head(s0) = "-",
                IF s0 # <<>> /\ Head(s0) \in {"-", "+"} THEN Tail(s0) ELSE s0,
                IF s0 # <<>> /\ Head(s0) \in {"-", "+"}
                THEN Drop(Tail(s0), PrefixIn(Tail(s0), Digits))
                ELSE Drop(s0, PrefixIn(s0, Digits)))

parseFloat(c) == ParseSigned(Drop(c, PrefixIn(c, Whitespace)))

\* value.replace(/[,\s$]/g, '')
StripSeparators(c) == SelectSeq(c, LAMBDA ch : ch \notin {",", " ", "$"})

\* the sentinels both parsers reject before parsing
IsSentinel(value) ==
  \/ ~Truthy(value)
  \/ value = Chars(<<"N", "/", "A">>)
  \/ value = Chars(<<"n", "u", "l", "l">>)
  \/ trim(value.chars) = <<>>

parseAmount(value) ==
  IF IsSentinel(value) THEN JsNull
  ELSE LET parsed == parseFloat(StripSeparators(value.chars))
       IN  IF parsed = NaN THEN JsNull ELSE parsed

parseNumber(value) ==
  IF IsSentinel(value) THEN JsNull
  ELSE LET parsed == parseFloat(value.chars)
       IN  IF parsed = NaN THEN JsNull ELSE parsed

\* new Date(dateStr) parses the ISO date and date-time forms; every other
\* string the feeds carry ("N/A", "", free text) is an invalid date
normalizeDate(dateStr) ==
  IF ~Truthy(dateStr) \/ dateStr = Str("N/A") THEN JsNull
  ELSE IF IsDate(dateStr) THEN dateStr
  ELSE IF DOMAIN dateStr = {"datetime"} THEN IsoDate(dateStr.datetime)
  ELSE JsNull

\* parseInt(normalized.substring(0, 4), 10)
extractYear(dateStr) ==
  LET normalized == normalizeDate(dateStr)
  IN  IF normalized = JsNull THEN JsNull ELSE Whole(normalized.date \div 10000)

\* a description is known by its text and by the keywords its lower-cased
\* text includes
Desc(text, keywords) == [str |-> text, includes |-> keywords]

normalizeSecurityType(desc) ==
  IF desc = JsNull \/ desc.str = "" THEN "OTHER"
  ELSE IF "bill" \in desc.includes THEN "BILL"
  ELSE IF desc.includes \cap {"tips", "inflation"} # {} THEN "TIPS"
  ELSE IF desc.includes \cap {"floating", "frn"} # {} THEN "FRN"
  ELSE IF "note" \in desc.includes THEN "NOTE"
  ELSE IF "bond" \in desc.includes THEN "BOND"
  ELSE "OTHER"

normalizeAuctionSecurityType(type) ==
  IF type = JsNull \/ type.str = "" THEN "NOTE"
  ELSE IF "bill" \in type.includes THEN "BILL"
  ELSE IF type.includes \cap {"tips", "inflation"} # {} THEN "TIPS"
  ELSE IF type.includes \cap {"floating", "frn"} # {} THEN "FRN"
  ELSE IF type.includes \cap {"cmb", "cash management"} # {} THEN "CMB"
  ELSE IF "bond" \in type.includes THEN "BOND"
  ELSE IF "note" \in type.includes THEN "NOTE"
  ELSE "NOTE"

\* a || b
OrElse(a, b) == IF Truthy(a) THEN a ELSE b

\* the text of a description, or '' / null
TextOrEmpty(desc) == IF desc = JsNull THEN Str("") ELSE Str(desc.str)

cleanSecurityRecord(raw) ==
  LET outstandingAmount == parseAmount(raw.outstanding_amt)
  IN  IF outstandingAmount = JsNull \/ outstandingAmount.num <= 0 THEN JsNull
      ELSE [recordDate        |-> OrElse(normalizeDate(raw.record_date), raw.record_date),
            cusip             |-> OrElse(raw.cusip, JsNull),
            securityType      |-> normalizeSecurityType(raw.security_type_desc),
            securityTypeDesc  |-> TextOrEmpty(raw.security_type_desc),
            securityClass     |-> OrElse(raw.security_class, JsNull),
            issueDate         |-> normalizeDate(raw.issue_date),
            maturityDate      |-> normalizeDate(raw.maturity_date),
            maturityYear      |-> extractYear(raw.maturity_date),
            outstandingAmount |-> outstandingAmount,
            interestRate      |-> parseNumber(raw.interest_rate)]

cleanAuctionRecord(raw) ==
  LET bidToCoverRatio == parseNumber(raw.bid_to_cover_ratio)
  IN  IF bidToCoverRatio = JsNull THEN JsNull
      ELSE [auctionDate            |-> OrElse(normalizeDate(raw.auction_date), raw.auction_date),
            issueDate              |-> normalizeDate(raw.issue_date),
            maturityDate           |-> normalizeDate(raw.maturity_date),
            securityType           |-> normalizeAuctionSecurityType(raw.security_type),
            securityTypeRaw        |-> TextOrEmpty(raw.security_type),
            securityTerm           |-> OrElse(raw.security_term, JsNull),
            cusip                  |-> OrElse(raw.cusip, JsNull),
            bidToCoverRatio        |-> bidToCoverRatio,
            highYield              |-> parseNumber(raw.high_yield),
            highDiscountRate       |-> parseNumber(raw.high_discount_rate),
            offeringAmount         |-> parseAmount(raw.offering_amt),
            acceptedAmount         |-> parseAmount(raw.accepted_amt),
            totalTendersAccepted   |-> parseAmount(raw.total_tendered),
            directBidderAccepted   |-> parseAmount(raw.direct_bidder_accepted_amt),
            indirectBidderAccepted |-> parseAmount(raw.indirect_bidder_accepted_amt),
            primaryDealerAccepted  |-> parseAmount(raw.primary_dealer_accepted_amt)]

cleanDebtRecord(raw) ==
  LET totalPublicDebt == parseAmount(raw.tot_pub_debt_out_amt)
  IN  IF totalPublicDebt = JsNull THEN JsNull
      ELSE [recordDate               |-> OrElse(normalizeDate(raw.record_date), raw.record_date),
            totalPublicDebt          |-> totalPublicDebt,
            debtHeldByPublic         |-> parseAmount(raw.debt_held_public_amt),
            intragovernmentalHoldings |-> parseAmount(raw.intragov_hold_amt)]

\* records.map(cleanSecurityRecord).filter(r => r !== null)
RECURSIVE cleanSecurityRecords(_)
cleanSecurityRecords(records) ==
  IF records = <<>> THEN <<>>
  ELSE LET c == cleanSecurityRecord(Head(records))
       IN  (IF c = JsNull THEN <<>> ELSE <<c>>) \o cleanSecurityRecords(Tail(records))

\* records.map(cleanAuctionRecord), without the filter
cleanAuctionRecordsUnfiltered(records) ==
  [i \in DOMAIN records |-> cleanAuctionRecord(records[i])]

\* records.map(cleanAuctionRecord).filter(r => r !== null)
RECURSIVE cleanAuctionRecords(_)
cleanAuctionRecords(records) ==
  IF records = <<>> THEN <<>>
  ELSE LET c == cleanAuctionRecord(Head(records))
       IN  (IF c = JsNull THEN <<>> ELSE <<c>>) \o cleanAuctionRecords(Tail(records))

\* the latest of the feeds' record dates (dates.sort().reverse()[0])
LatestDate(dates) == CHOOSE d \in dates : \A e \in dates : e.date <= d.date

cleanEconomicIndicators(expense, rate, yieldCurve, realYield) ==
  LET dates == {r.record_date : r \in {x \in {expense, rate, yieldCurve, realYield} :
                                          x # JsNull /\ Truthy(x.record_date)}}
      yield10y == IF yieldCurve # JsNull THEN parseNumber(yieldCurve.bc_10year) ELSE JsNull
      yield2y  == IF yieldCurve # JsNull THEN parseNumber(yieldCurve.bc_2year) ELSE JsNull
      real10y  == IF realYield # JsNull THEN parseNumber(realYield.tc_10year) ELSE JsNull
  IN  IF dates = {} THEN JsNull
      ELSE [recordDate          |-> OrElse(normalizeDate(LatestDate(dates)), LatestDate(dates)),
            interestExpense     |-> IF expense # JsNull THEN parseAmount(expense.fy_td_expense_amt) ELSE JsNull,
            averageInterestRate |-> IF rate # JsNull THEN parseAmount(rate.avg_interest_rate_amt) ELSE JsNull,
            yield10y            |-> yield10y,
            yield2y             |-> yield2y,
            realYield10y        |-> real10y,
            breakeven10y        |-> IF yield10y # JsNull /\ real10y # JsNull
                                    THEN Num(yield10y.num - real10y.num) ELSE JsNull]

\* ------------------------------------------------------------------------
\* Upstream feeds: the records the fiscal-data service returns.  The data is
\* the same for every fetch of a behaviour.
\* ------------------------------------------------------------------------

\* the texts of the numeric fields the feeds carry
Text ==
  [Amt1250 |-> Chars(<<"1", ",", "2", "5", "0", ".", "5", "0">>),
   Amt300 |-> Chars(<<"3", "0", "0">>),
   Amt75 |-> Chars(<<"$", "7", "5">>),
   Amt40 |-> Chars(<<"4", "0">>),
   AmtNA |-> Chars(<<"N", "/", "A">>),
   AmtZero |-> Chars(<<"0">>),
   AmtNegative |-> Chars(<<"-", "5">>),
   AmtBlank |-> Chars(<<" ">>),
   Ratio250 |-> Chars(<<"2", ".", "5", "0">>),
   Ratio180 |-> Chars(<<"1", ".", "8">>),
   Ratio310 |-> Chars(<<"3", ".", "1">>)]

RawSecurity(cusip, amt, desc, maturity) ==
  [record_date |-> IsoDate(20250131), cusip |-> cusip, outstanding_amt |-> amt,
   security_type_desc |-> desc, security_class |-> Str("Marketable"),
   issue_date |-> IsoDateTime(20200115), maturity_date |-> maturity,
   interest_rate |-> Text.Ratio250]

UpstreamSecurities ==
  << RawSecurity(Str("912A"), Text.Amt1250, Desc("Treasury Bills", {"bill"}), IsoDate(20260331)),
     RawSecurity(Str("912B"), Text.AmtNA, Desc("Treasury Notes", {"note"}), IsoDate(20270630)),
     RawSecurity(Str("912C"), Text.Amt300, Desc("Treasury Notes", {"note"}), IsoDate(20270630)),
     RawSecurity(Str(""), Text.Amt75, Desc("Total Marketable", {}), Str("N/A")),
     RawSecurity(Str("912D"), Text.AmtZero, Desc("Treasury Bonds", {"bond"}), IsoDate(20280815)),
     RawSecurity(Str("912E"), Text.Amt40, Desc("Treasury Bonds", {"bond"}), IsoDate(20280815)),
     RawSecurity(Str("912F"), Text.AmtNegative, Desc("Floating Rate Notes", {"floating", "note"}), IsoDate(20260331)) >>

RawAuction(date, cusip, ratio, type) ==
  [auction_date |-> date, issue_date |-> date, maturity_date |-> IsoDate(20300131),
   security_type |-> type, security_term |-> Str("10-Year"), cusip |-> cusip,
   bid_to_cover_ratio |-> ratio, high_yield |-> Text.Ratio250,
   high_discount_rate |-> Text.AmtNA, offering_amt |-> Text.Amt300, accepted_amt |-> Text.Amt300,
   total_tendered |-> Text.Amt1250, direct_bidder_accepted_amt |-> Text.Amt40,
   indirect_bidder_accepted_amt |-> Text.Amt75, primary_dealer_accepted_amt |-> Text.AmtBlank]

\* sorted by -auction_date, as requested from the service
UpstreamAuctions ==
  << RawAuction(IsoDate(20250129), Str("91A3"), Text.Ratio180, Desc("Bond", {"bond"})),
     RawAuction(IsoDate(20250122), JsNull, Text.Ratio310, Desc("Note", {"note"})),
     RawAuction(IsoDate(20250115), Str("91A2"), Text.AmtNA, Desc("Note", {"note"})),
     RawAuction(IsoDate(20250108), Str("91A1"), Text.Ratio250, Desc("Note", {"note"})),
     RawAuction(IsoDate(20241218), Str("91A0"), Text.AmtZero, Desc("Bill", {"bill"})) >>

\* records none of which the sanitizer keeps
Unusable ==
  [securities |-> <<RawSecurity(Str("912B"), Text.AmtNA, Desc("Treasury Notes", {"note"}),
                                IsoDate(20270630))>>,
   auctions   |-> <<RawAuction(IsoDate(20250115), Str("91A2"), Text.AmtNA, Desc("Note", {"note"}))>>,
   debt       |-> [record_date |-> IsoDate(20250203), tot_pub_debt_out_amt |-> Text.AmtNA,
                   debt_held_public_amt |-> Text.Amt300, intragov_hold_amt |-> Text.AmtNA]]

\* what a feed returns: its records, or nothing at all when the service has
\* none
FeedData(feed, upstreamState) ==
  IF upstreamState = "empty"
  THEN (IF feed \in {"securities", "auctions"} THEN <<>> ELSE JsNull)
  ELSE IF upstreamState = "unusable"
  THEN (IF feed \in DOMAIN Unusable THEN Unusable[feed] ELSE JsNull)
  ELSE CASE feed = "securities" -> UpstreamSecurities
         [] feed = "auctions"   -> UpstreamAuctions
         [] feed = "debt"       ->
              [record_date |-> IsoDate(20250203), tot_pub_debt_out_amt |-> Text.Amt1250,
               debt_held_public_amt |-> Text.Amt300, intragov_hold_amt |-> Text.AmtNA]
         [] feed = "expense"    ->
              [record_date |-> IsoDate(20241231), fy_td_expense_amt |-> Text.Amt1250]
         [] feed = "rates"      ->
              [record_date |-> IsoDate(20250131), avg_interest_rate_amt |-> Text.Ratio310]
         [] feed = "yields"     ->
              [record_date |-> IsoDate(20250203), bc_10year |-> Text.Ratio310,
               bc_2year |-> Text.Ratio250]
         [] feed = "realYields" ->
              [record_date |-> IsoDate(20250131), tc_10year |-> Text.Ratio180]

\* ------------------------------------------------------------------------
\* Store: the db module and the tables
\* ------------------------------------------------------------------------

\* export const isDbAvailable = isDatabaseConfigured && !skipDatabase
isDbAvailable == dbEnv.isDatabaseConfigured /\ ~dbEnv.skipDatabase

\* getDb(): the handle, or null; createOk tells whether createDb() returns
\* or throws when it is called
getDb(createOk) ==
  IF dbEnv.skipDatabase \/ ~dbEnv.isDatabaseConfigured
  THEN [db |-> JsNull, handle |-> dbHandle, created |-> 0, failed |-> 0]
  ELSE IF dbHandle # JsNull
  THEN [db |-> dbHandle, handle |-> dbHandle, created |-> 0, failed |-> 0]
  ELSE IF createOk
  THEN [db |-> Str("drizzle"), handle |-> Str("drizzle"), created |-> 1, failed |-> 0]
  ELSE [db |-> JsNull, handle |-> JsNull, created |-> 0, failed |-> 1]

\* value?.toString() into a decimal column, read back as a string of digits
Decimal(n) == [dec |-> n]
toDecimal(v) == IF v = JsNull THEN JsNull ELSE Decimal(v.num)

\* parseFloat of a decimal column
decimalToNumber(d) == Num(d.dec)

\* unique index (record_date, cusip) / (auction_date, cusip): two rows
\* conflict when both columns are equal; a NULL cusip equals nothing
ConflictsDateCusip(row, date, cusip, dateCol) ==
  row[dateCol] = date /\ cusip # JsNull /\ row.cusip = cusip

\* INSERT ... VALUES values ON CONFLICT DO NOTHING, row after row; createdAt
\* is the time of the statement
RECURSIVE InsertDateCusip(_, _, _, _)
InsertDateCusip(table, values, dateCol, at) ==
  IF values = <<>> THEN table
  ELSE LET v == Head(values)
           conflict == \E i \in 1..Len(table) :
                          ConflictsDateCusip(table[i], v[dateCol], v.cusip, dateCol)
       IN  InsertDateCusip(IF conflict THEN table
                           ELSE Append(table, [v EXCEPT !.createdAt = at]),
                           Tail(values), dateCol, at)

\* record_date ... UNIQUE
InsertByDate(table, v, at) ==
  IF \E i \in 1..Len(table) : table[i].recordDate = v.recordDate
  THEN table
  ELSE Append(table, [v EXCEPT !.createdAt = at])

\* a DATE NOT NULL column takes a date only; the statement fails otherwise
DateColumnsValid(values, dateCol) ==
  \A i \in 1..Len(values) : IsDate(values[i][dateCol])

\* the values the job builds from cleaned records
SecurityValues(chunk) ==
  [i \in 1..Len(chunk) |->
     [recordDate        |-> chunk[i].recordDate,
      cusip             |-> chunk[i].cusip,
      securityType      |-> chunk[i].securityType,
      securityTypeDesc  |-> chunk[i].securityTypeDesc,
      securityClass     |-> chunk[i].securityClass,
      issueDate         |-> chunk[i].issueDate,
      maturityDate      |-> chunk[i].maturityDate,
      maturityYear      |-> chunk[i].maturityYear,
      outstandingAmount |-> toDecimal(chunk[i].outstandingAmount),
      interestRate      |-> toDecimal(chunk[i].interestRate),
      createdAt         |-> 0]]

AuctionValues(chunk) ==
  [i \in 1..Len(chunk) |->
     [auctionDate            |-> chunk[i].auctionDate,
      issueDate              |-> chunk[i].issueDate,
      maturityDate           |-> chunk[i].maturityDate,
      securityType           |-> chunk[i].securityType,
      securityTypeRaw        |-> chunk[i].securityTypeRaw,
      securityTerm           |-> chunk[i].securityTerm,
      cusip                  |-> chunk[i].cusip,
      bidToCoverRatio        |-> toDecimal(chunk[i].bidToCoverRatio),
      highYield              |-> toDecimal(chunk[i].highYield),
      highDiscountRate       |-> toDecimal(chunk[i].highDiscountRate),
      offeringAmount         |-> toDecimal(chunk[i].offeringAmount),
      acceptedAmount         |-> toDecimal(chunk[i].acceptedAmount),
      totalTendersAccepted   |-> toDecimal(chunk[i].totalTendersAccepted),
      directBidderAccepted   |-> toDecimal(chunk[i].directBidderAccepted),
      indirectBidderAccepted |-> toDecimal(chunk[i].indirectBidderAccepted),
      primaryDealerAccepted  |-> toDecimal(chunk[i].primaryDealerAccepted),
      createdAt              |-> 0]]

DebtValues(cleaned) ==
  [recordDate                |-> cleaned.recordDate,
   totalPublicDebt           |-> toDecimal(cleaned.totalPublicDebt),
   debtHeldByPublic          |-> toDecimal(cleaned.debtHeldByPublic),
   intragovernmentalHoldings |-> toDecimal(cleaned.intragovernmentalHoldings),
   createdAt                 |-> 0]

IndicatorValues(cleaned) ==
  [recordDate          |-> cleaned.recordDate,
   interestExpense     |-> toDecimal(cleaned.interestExpense),
   averageInterestRate |-> toDecimal(cleaned.averageInterestRate),
   yield10y            |-> toDecimal(cleaned.yield10y),
   yield2y             |-> toDecimal(cleaned.yield2y),
   realYield10y        |-> toDecimal(cleaned.realYield10y),
   breakeven10y        |-> toDecimal(cleaned.breakeven10y),
   yieldCurveSpread    |-> IF cleaned.yield10y # JsNull /\ cleaned.yield2y # JsNull
                           THEN Decimal(cleaned.yield10y.num - cleaned.yield2y.num)
                           ELSE JsNull,
   debtToGdpRatio      |-> JsNull,
   createdAt           |-> 0]

\* a row of etl_job_log; `run` records which request wrote it
JobLogRow(r, status, recordsProcessed) ==
  [jobName |-> "daily_ingest", status |-> status,
   recordsProcessed |-> recordsProcessed, run |-> r]

\* chunkArray(array, size)
RECURSIVE chunkArray(_, _)
chunkArray(array, size) ==
  IF array = <<>> THEN <<>>
  ELSE IF Len(array) <= size THEN <<array>>
  ELSE <<SubSeq(array, 1, size)>> \o chunkArray(Drop(array, size), size)

\* ------------------------------------------------------------------------
\* Ingest job: GET /api/cron/ingest.  One action per stretch of the handler
\* between two awaits; the outcome of the awaited fetch or statement (returns
\* or throws) is the input of the action that resumes the handler.
\* ------------------------------------------------------------------------

Runs == 1..MaxRuns

\* `Bearer ${cronSecret}`
BearerOf(secret) ==
  Chars(<<"Bearer", " ">> \o (IF secret.str = "" THEN <<>> ELSE <<secret.str>>))

\* Authorization headers a request may carry
AuthHeaders ==
  {JsNull, BearerOf(Str("s3cret")), BearerOf(Str("wrong")), BearerOf(Str("")),
   Chars(<<"s3cret">>)}

CronEnvs ==
  {[NODE_ENV |-> "development", CRON_SECRET |-> JsNull],
   [NODE_ENV |-> "production",  CRON_SECRET |-> JsNull],
   [NODE_ENV |-> "production",  CRON_SECRET |-> Str("")],
   [NODE_ENV |-> "production",  CRON_SECRET |-> Str("s3cret")]}

verifyCronSecretNoSecretCheck(env, header) ==
  IF env.NODE_ENV = "development" THEN TRUE
  ELSE IF env.CRON_SECRET = JsNull THEN header = JsNull
  ELSE header = BearerOf(env.CRON_SECRET)

verifyCronSecret(env, header) ==
  IF env.NODE_ENV = "development" THEN TRUE
  ELSE IF ~Truthy(env.CRON_SECRET) THEN FALSE
  ELSE header = BearerOf(env.CRON_SECRET)

IndicatorFeeds == {"expense", "rates", "yields", "realYields"}

ResultsInit ==
  [debt       |-> [success |-> FALSE, message |-> "", count |-> 0],
   securities |-> [success |-> FALSE, message |-> "", count |-> 0],
   auctions   |-> [success |-> FALSE, message |-> "", count |-> 0],
   indicators |-> [success |-> FALSE, message |-> "", count |-> 0],
   aggregates |-> [success |-> FALSE, message |-> "", count |-> 0]]

Succeeded(count) == [success |-> TRUE, message |-> "ok", count |-> count]
FailedReportedAsSuccess == [success |-> TRUE, message |-> "Error", count |-> 0]

Failed == [success |-> FALSE, message |-> "Error", count |-> 0]

LocInit == [cleaned |-> JsNull, chunks |-> <<>>, insertedCount |-> 0, total |-> 0]

NoResponse == [status |-> 0]
\* threw: where a fetch, a statement or a revalidation of the run has thrown
IoInit == [logWrite |-> FALSE, fetch |-> FALSE, insert |-> FALSE, startLog |-> "none",
           threw |-> {}]

\* where the handler goes when a step is over: the first await of the next step
StepAfter(step) ==
  CASE step = "debt"       -> "securities"
    [] step = "securities" -> "auctions"
    [] step = "auctions"   -> "indicators"
    [] step = "indicators" -> "aggregates"

FirstPc(step) ==
  CASE step = "debt"       -> "debt_fetch"
    [] step = "securities" -> "securities_fetch"
    [] step = "auctions"   -> "auctions_fetch"
    [] step = "indicators" -> "indicators_fetch"
    [] step = "aggregates" -> "aggregates"

\* the catch block of a step stores the failure and falls through to the
\* next step
AfterCatchRethrows(step) == "log_failed"

AfterCatch(step) == FirstPc(StepAfter(step))

\* the step's try block ended normally
AfterTry(step) == FirstPc(StepAfter(step))

\* a fetch or statement that throws is counted, up to MaxFaults
Fault(ok) ==
  faults' = IF ~ok /\ faults < MaxFaults THEN faults + 1 ELSE faults

\* leave `step` for `target`, with `res` stored in results[step]; `thrown`
\* tells that the step is left through its catch block
Leave(r, step, res, target, thrown) ==
  /\ results' = [results EXCEPT ![r][step] = res]
  /\ pc' = [pc EXCEPT ![r] = target]
  /\ trace' = [trace EXCEPT ![r] =
                 @ \o << <<step, "end">> >> \o
                 (IF target = FirstPc(StepAfter(step))
                  THEN << <<StepAfter(step), "start">> >> ELSE <<>>)]
  /\ io' = [io EXCEPT ![r].fetch = @ \/ target \in {"securities_fetch", "auctions_fetch", "indicators_fetch"},
                      ![r].logWrite = @ \/ target = "log_failed",
                      ![r].threw = IF thrown THEN @ \cup {step} ELSE @]

\* await db.insert(etlJobLog).values({status: 'started'}) inside its own
\* try/catch: the row is there when the statement returned
StartedLogNeverWritten(log, r, ok) == log

StartedLog(log, r, ok) ==
  IF ok THEN Append(log, JobLogRow(r, "started", 0)) ELSE log

\* await db.insert(etlJobLog).values({status: 'completed', ...}) returned
CompletedLogNeverWritten(log, r, recordsProcessed) == log

\* the run's `started` row is updated in place, where there is one
CompletedLogUpdatesStarted(log, r, recordsProcessed) ==
  IF \E i \in DOMAIN log : log[i].run = r /\ log[i].status = "started"
  THEN [i \in DOMAIN log |->
          IF log[i].run = r /\ log[i].status = "started"
          THEN JobLogRow(r, "completed", recordsProcessed) ELSE log[i]]
  ELSE Append(log, JobLogRow(r, "completed", recordsProcessed))

CompletedLog(log, r, recordsProcessed) ==
  Append(log, JobLogRow(r, "completed", recordsProcessed))

\* the handler starts: authorization, then the store check, then it issues
\* the insert of the `started` row
\* the two checks in the other order: the store check before authorization
IngestRequestStoreCheckFirst(r, header, createOk) ==
  /\ pc[r] = "idle"
  /\ authHeader' = [authHeader EXCEPT ![r] = header]
  /\ LET g == getDb(createOk)
     IN  /\ dbHandle' = g.handle
         /\ dbCreations' = dbCreations + g.created
         /\ dbFailures' = dbFailures + g.failed
         /\ IF g.db = JsNull \/ ~isDbAvailable
            THEN /\ response' = [response EXCEPT ![r] = [status |-> 503]]
                 /\ pc' = [pc EXCEPT ![r] = "done"]
                 /\ UNCHANGED <<results, io>>
            ELSE IF ~verifyCronSecret(cronEnv, header)
            THEN /\ response' = [response EXCEPT ![r] = [status |-> 401]]
                 /\ pc' = [pc EXCEPT ![r] = "done"]
                 /\ UNCHANGED <<results, io>>
            ELSE /\ pc' = [pc EXCEPT ![r] = "log_start"]
                 /\ results' = [results EXCEPT ![r] = ResultsInit]
                 /\ io' = [io EXCEPT ![r].logWrite = TRUE]
                 /\ UNCHANGED response
  /\ UNCHANGED <<rlVars, dbEnv, upstream, routeVars, tableVars, cronEnv, loc, inflight, trace, faults>>

IngestRequest(r, header, createOk) ==
  /\ pc[r] = "idle"
  /\ authHeader' = [authHeader EXCEPT ![r] = header]
  /\ IF ~verifyCronSecret(cronEnv, header)
     THEN /\ response' = [response EXCEPT ![r] = [status |-> 401]]
          /\ pc' = [pc EXCEPT ![r] = "done"]
          /\ UNCHANGED <<dbHandle, dbCreations, dbFailures, results, io>>
     ELSE LET g == getDb(createOk)
          IN  /\ dbHandle' = g.handle
              /\ dbCreations' = dbCreations + g.created
              /\ dbFailures' = dbFailures + g.failed
              /\ IF g.db = JsNull \/ ~isDbAvailable
                 THEN /\ response' = [response EXCEPT ![r] = [status |-> 503]]
                      /\ pc' = [pc EXCEPT ![r] = "done"]
                      /\ UNCHANGED <<results, io>>
                 ELSE /\ pc' = [pc EXCEPT ![r] = "log_start"]
                      /\ results' = [results EXCEPT ![r] = ResultsInit]
                      /\ io' = [io EXCEPT ![r].logWrite = TRUE]
                      /\ UNCHANGED response
  /\ UNCHANGED <<rlVars, dbEnv, upstream, routeVars, tableVars, cronEnv, loc, inflight, trace, faults>>

\* the insert of the `started` row settles; a failure is logged and ignored.
\* Step 1 begins: fetchDebtToPenny() is issued.
LogStart(r, ok) ==
  /\ pc[r] = "log_start"
  /\ Fault(ok)
  /\ etlJobLog' = StartedLog(etlJobLog, r, ok)
  /\ pc' = [pc EXCEPT ![r] = "debt_fetch"]
  /\ trace' = [trace EXCEPT ![r] = @ \o << <<"debt", "start">> >>]
  /\ io' = [io EXCEPT ![r].fetch = TRUE,
                      ![r].startLog = IF ok THEN "written" ELSE "threw"]
  /\ UNCHANGED <<rlVars, dbVars, upstream, routeVars, maturityWallAggregates, treasurySecurities, treasuryAuctions,
                 dailyDebtSnapshots, economicIndicators, cronEnv, authHeader,
                 results, loc, inflight, response>>

\* Step 1: fetchDebtToPenny() settles
DebtFetch(r, ok) ==
  /\ pc[r] = "debt_fetch"
  /\ Fault(ok)
  /\ IF ~ok
     THEN Leave(r, "debt", Failed, AfterCatch("debt"), TRUE) /\ UNCHANGED loc
     ELSE LET rawDebt == FeedData("debt", upstream)
              cleaned == IF rawDebt = JsNull THEN JsNull ELSE cleanDebtRecord(rawDebt)
          IN  IF cleaned = JsNull
              THEN Leave(r, "debt", results[r].debt, AfterTry("debt"), FALSE) /\ UNCHANGED loc
              ELSE /\ pc' = [pc EXCEPT ![r] = "debt_insert"]
                   /\ loc' = [loc EXCEPT ![r].cleaned = cleaned]
                   /\ io' = [io EXCEPT ![r].insert = TRUE]
                   /\ UNCHANGED <<results, trace>>
  /\ UNCHANGED <<rlVars, dbVars, upstream, routeVars, tableVars, cronEnv, authHeader,
                 inflight, response>>

\* Step 1: the insert of the debt snapshot settles
DebtInsert(r, ok) ==
  /\ pc[r] = "debt_insert"
  /\ Fault(ok)
  /\ LET values == DebtValues(loc[r].cleaned)
     IN  IF ok
         THEN /\ IsDate(values.recordDate)
              /\ dailyDebtSnapshots' = InsertByDate(dailyDebtSnapshots, values, r)
              /\ Leave(r, "debt", Succeeded(0), AfterTry("debt"), FALSE)
         ELSE /\ UNCHANGED dailyDebtSnapshots
              /\ Leave(r, "debt", Failed, AfterCatch("debt"), TRUE)
  /\ loc' = [loc EXCEPT ![r] = LocInit]
  /\ UNCHANGED <<rlVars, dbVars, upstream, routeVars, maturityWallAggregates, treasurySecurities, treasuryAuctions,
                 economicIndicators, etlJobLog, cronEnv, authHeader, inflight, response>>

\* Step 2: fetchSecuritiesDetail(5000) settles
SecuritiesFetch(r, ok) ==
  /\ pc[r] = "securities_fetch"
  /\ Fault(ok)
  /\ IF ~ok
     THEN Leave(r, "securities", Failed, AfterCatch("securities"), TRUE) /\ UNCHANGED loc
     ELSE LET cleaned == cleanSecurityRecords(FeedData("securities", upstream))
          IN  IF Len(cleaned) > 0
              THEN /\ pc' = [pc EXCEPT ![r] = "securities_insert"]
                   /\ loc' = [loc EXCEPT ![r].chunks = chunkArray(cleaned, ChunkSize),
                                         ![r].insertedCount = 0,
                                         ![r].total = Len(cleaned)]
                   /\ io' = [io EXCEPT ![r].insert = TRUE]
                   /\ UNCHANGED <<results, trace>>
              ELSE Leave(r, "securities", results[r].securities, AfterTry("securities"), FALSE)
                   /\ UNCHANGED loc
  /\ UNCHANGED <<rlVars, dbVars, upstream, routeVars, tableVars, cronEnv, authHeader,
                 inflight, response>>

\* Step 2 with the chunks of a batch in one transaction: a chunk that throws
\* takes the rows of the earlier chunks with it
SecuritiesInsertRollsBack(r, ok) ==
  /\ pc[r] = "securities_insert"
  /\ Fault(ok)
  /\ LET chunk == Head(loc[r].chunks)
         values == SecurityValues(chunk)
         insertedCount == loc[r].insertedCount + Len(chunk)
     IN  IF ok
         THEN /\ DateColumnsValid(values, "recordDate")
              /\ treasurySecurities' = InsertDateCusip(treasurySecurities, values, "recordDate", r)
              /\ IF Tail(loc[r].chunks) = <<>>
                 THEN /\ Leave(r, "securities", Succeeded(insertedCount), AfterTry("securities"), FALSE)
                      /\ loc' = [loc EXCEPT ![r] = LocInit]
                 ELSE /\ loc' = [loc EXCEPT ![r].chunks = Tail(@),
                                            ![r].insertedCount = insertedCount]
                      /\ UNCHANGED <<pc, results, trace, io>>
         ELSE /\ treasurySecurities' = SelectSeq(treasurySecurities, LAMBDA row : row.createdAt # r)
              /\ Leave(r, "securities", Failed, AfterCatch("securities"), TRUE)
              /\ loc' = [loc EXCEPT ![r] = LocInit]
  /\ UNCHANGED <<rlVars, dbVars, upstream, routeVars, maturityWallAggregates, treasuryAuctions, dailyDebtSnapshots,
                 economicIndicators, etlJobLog, cronEnv, authHeader, inflight, response>>

\* Step 2: the insert of one chunk settles
SecuritiesInsert(r, ok) ==
  /\ pc[r] = "securities_insert"
  /\ Fault(ok)
  /\ LET chunk == Head(loc[r].chunks)
         values == SecurityValues(chunk)
         insertedCount == loc[r].insertedCount + Len(chunk)
     IN  IF ok
         THEN /\ DateColumnsValid(values, "recordDate")
              /\ treasurySecurities' = InsertDateCusip(treasurySecurities, values, "recordDate", r)
              /\ IF Tail(loc[r].chunks) = <<>>
                 THEN /\ Leave(r, "securities", Succeeded(insertedCount), AfterTry("securities"), FALSE)
                      /\ loc' = [loc EXCEPT ![r] = LocInit]
                 ELSE /\ loc' = [loc EXCEPT ![r].chunks = Tail(@),
                                            ![r].insertedCount = insertedCount]
                      /\ UNCHANGED <<pc, results, trace, io>>
         ELSE /\ UNCHANGED treasurySecurities
              /\ Leave(r, "securities", Failed, AfterCatch("securities"), TRUE)
              /\ loc' = [loc EXCEPT ![r] = LocInit]
  /\ UNCHANGED <<rlVars, dbVars, upstream, routeVars, maturityWallAggregates, treasuryAuctions, dailyDebtSnapshots,
                 economicIndicators, etlJobLog, cronEnv, authHeader, inflight, response>>

\* the four indicator fetches are issued together when step 4 begins
IssueIndicatorFetches(r) ==
  inflight' = [inflight EXCEPT ![r] =
                 IF pc'[r] = "indicators_fetch" THEN IndicatorFeeds ELSE @]

\* Step 3: fetchAuctions(1000) settles
AuctionsFetch(r, ok) ==
  /\ pc[r] = "auctions_fetch"
  /\ Fault(ok)
  /\ IF ~ok
     THEN Leave(r, "auctions", Failed, AfterCatch("auctions"), TRUE) /\ UNCHANGED loc
     ELSE LET cleaned == cleanAuctionRecords(FeedData("auctions", upstream))
          IN  IF Len(cleaned) > 0
              THEN /\ pc' = [pc EXCEPT ![r] = "auctions_insert"]
                   /\ loc' = [loc EXCEPT ![r].chunks = chunkArray(cleaned, ChunkSize),
                                         ![r].total = Len(cleaned)]
                   /\ io' = [io EXCEPT ![r].insert = TRUE]
                   /\ UNCHANGED <<results, trace>>
              ELSE Leave(r, "auctions", results[r].auctions, AfterTry("auctions"), FALSE)
                   /\ UNCHANGED loc
  /\ IssueIndicatorFetches(r)
  /\ UNCHANGED <<rlVars, dbVars, upstream, routeVars, tableVars, cronEnv, authHeader, response>>

\* Step 3: the insert of one chunk settles
AuctionsInsert(r, ok) ==
  /\ pc[r] = "auctions_insert"
  /\ Fault(ok)
  /\ LET chunk == Head(loc[r].chunks)
         values == AuctionValues(chunk)
     IN  IF ok
         THEN /\ DateColumnsValid(values, "auctionDate")
              /\ treasuryAuctions' = InsertDateCusip(treasuryAuctions, values, "auctionDate", r)
              /\ IF Tail(loc[r].chunks) = <<>>
                 THEN /\ Leave(r, "auctions", Succeeded(loc[r].total), AfterTry("auctions"), FALSE)
                      /\ loc' = [loc EXCEPT ![r] = LocInit]
                 ELSE /\ loc' = [loc EXCEPT ![r].chunks = Tail(@)]
                      /\ UNCHANGED <<pc, results, trace, io>>
         ELSE /\ UNCHANGED treasuryAuctions
              /\ Leave(r, "auctions", Failed, AfterCatch("auctions"), TRUE)
              /\ loc' = [loc EXCEPT ![r] = LocInit]
  /\ IssueIndicatorFetches(r)
  /\ UNCHANGED <<rlVars, dbVars, upstream, routeVars, maturityWallAggregates, treasurySecurities, dailyDebtSnapshots,
                 economicIndicators, etlJobLog, cronEnv, authHeader, response>>

\* Step 4: one of the four fetches under Promise.all settles.  Promise.all
\* rejects on the first failure, while the other fetches are still on their
\* way; it resolves when the last one has returned.  A fetch that settles
\* after the rejection has no effect.
IndicatorFetchSettle(r, feed, ok) ==
  /\ feed \in inflight[r]
  /\ Fault(ok)
  /\ inflight' = [inflight EXCEPT ![r] = @ \ {feed}]
  /\ IF pc[r] # "indicators_fetch"
     THEN UNCHANGED <<pc, results, trace, io, loc>>
     ELSE IF ~ok
     THEN Leave(r, "indicators", Failed, AfterCatch("indicators"), TRUE) /\ UNCHANGED loc
     ELSE IF inflight[r] # {feed}
     THEN UNCHANGED <<pc, results, trace, io, loc>>
     ELSE LET cleaned == cleanEconomicIndicators(FeedData("expense", upstream),
                                                 FeedData("rates", upstream),
                                                 FeedData("yields", upstream),
                                                 FeedData("realYields", upstream))
          IN  IF cleaned = JsNull
              THEN Leave(r, "indicators", results[r].indicators, AfterTry("indicators"), FALSE)
                   /\ UNCHANGED loc
              ELSE /\ pc' = [pc EXCEPT ![r] = "indicators_insert"]
                   /\ loc' = [loc EXCEPT ![r].cleaned = cleaned]
                   /\ io' = [io EXCEPT ![r].insert = TRUE]
                   /\ UNCHANGED <<results, trace>>
  /\ UNCHANGED <<rlVars, dbVars, upstream, routeVars, tableVars, cronEnv, authHeader, response>>

\* Step 4: the insert of the indicator row settles
IndicatorsInsert(r, ok) ==
  /\ pc[r] = "indicators_insert"
  /\ Fault(ok)
  /\ LET values == IndicatorValues(loc[r].cleaned)
     IN  IF ok
         THEN /\ IsDate(values.recordDate)
              /\ economicIndicators' = InsertByDate(economicIndicators, values, r)
              /\ Leave(r, "indicators", Succeeded(0), AfterTry("indicators"), FALSE)
         ELSE /\ UNCHANGED economicIndicators
              /\ Leave(r, "indicators", Failed, AfterCatch("indicators"), TRUE)
  /\ loc' = [loc EXCEPT ![r] = LocInit]
  /\ UNCHANGED <<rlVars, dbVars, upstream, routeVars, maturityWallAggregates, treasurySecurities, treasuryAuctions,
                 dailyDebtSnapshots, etlJobLog, cronEnv, authHeader, inflight, response>>

\* Step 5 stores its success without computing anything; then the four
\* revalidatePath calls run, and the insert of the `completed` row is issued,
\* or, when a revalidation throws, the insert of the `failed` row
Aggregates(r, revalidateOk) ==
  /\ pc[r] = "aggregates"
  /\ Fault(revalidateOk)
  /\ results' = [results EXCEPT ![r].aggregates = Succeeded(0)]
  /\ trace' = [trace EXCEPT ![r] = @ \o << <<"aggregates", "end">> >>]
  /\ pc' = [pc EXCEPT ![r] = IF revalidateOk THEN "log_completed" ELSE "log_failed"]
  /\ io' = [io EXCEPT ![r].logWrite = TRUE,
                      ![r].threw = IF revalidateOk THEN @ ELSE @ \cup {"revalidate"}]
  /\ UNCHANGED <<rlVars, dbVars, upstream, routeVars, tableVars, cronEnv, authHeader, loc,
                 inflight, response>>

\* the terminal row and the status follow the steps: a run with a step that
\* did not succeed writes a `failed` row and answers 500
LogCompletedJudgesSteps(r, ok) ==
  /\ pc[r] = "log_completed"
  /\ Fault(ok)
  /\ io' = [io EXCEPT ![r].threw = IF ok THEN @ ELSE @ \cup {"log_completed"}]
  /\ IF ok
     THEN /\ etlJobLog' =
               IF \A step \in DOMAIN results[r] : results[r][step].success
               THEN CompletedLog(etlJobLog, r,
                                 results[r].securities.count + results[r].auctions.count)
               ELSE Append(etlJobLog, JobLogRow(r, "failed", 0))
          /\ response' = [response EXCEPT ![r] =
                IF \A step \in DOMAIN results[r] : results[r][step].success
                THEN [status |-> 200, success |-> TRUE, results |-> results[r]]
                ELSE [status |-> 500, success |-> FALSE, results |-> results[r]]]
          /\ pc' = [pc EXCEPT ![r] = "done"]
     ELSE /\ pc' = [pc EXCEPT ![r] = "log_failed"]
          /\ UNCHANGED <<etlJobLog, response>>
  /\ UNCHANGED <<rlVars, dbVars, upstream, routeVars, maturityWallAggregates, treasurySecurities, treasuryAuctions,
                 dailyDebtSnapshots, economicIndicators, cronEnv, authHeader,
                 results, loc, inflight, trace>>

\* the insert of the `completed` row settles
LogCompleted(r, ok) ==
  /\ pc[r] = "log_completed"
  /\ Fault(ok)
  /\ io' = [io EXCEPT ![r].threw = IF ok THEN @ ELSE @ \cup {"log_completed"}]
  /\ IF ok
     THEN /\ etlJobLog' = CompletedLog(etlJobLog, r,
                results[r].securities.count + results[r].auctions.count)
          /\ response' = [response EXCEPT ![r] =
                [status |-> 200, success |-> TRUE, results |-> results[r]]]
          /\ pc' = [pc EXCEPT ![r] = "done"]
     ELSE /\ pc' = [pc EXCEPT ![r] = "log_failed"]
          /\ UNCHANGED <<etlJobLog, response>>
  /\ UNCHANGED <<rlVars, dbVars, upstream, routeVars, maturityWallAggregates, treasurySecurities, treasuryAuctions,
                 dailyDebtSnapshots, economicIndicators, cronEnv, authHeader,
                 results, loc, inflight, trace>>

\* the insert of the `failed` row settles; when it throws the handler throws
\* and returns no response of its own
LogFailed(r, ok) ==
  /\ pc[r] = "log_failed"
  /\ Fault(ok)
  /\ io' = [io EXCEPT ![r].threw = IF ok THEN @ ELSE @ \cup {"log_failed"}]
  /\ IF ok
     THEN /\ etlJobLog' = Append(etlJobLog, JobLogRow(r, "failed", 0))
          /\ response' = [response EXCEPT ![r] =
                [status |-> 500, success |-> FALSE, results |-> results[r]]]
          /\ pc' = [pc EXCEPT ![r] = "done"]
     ELSE /\ pc' = [pc EXCEPT ![r] = "crashed"]
          /\ UNCHANGED <<etlJobLog, response>>
  /\ UNCHANGED <<rlVars, dbVars, upstream, routeVars, maturityWallAggregates, treasurySecurities, treasuryAuctions,
                 dailyDebtSnapshots, economicIndicators, cronEnv, authHeader,
                 results, loc, inflight, trace>>

\* a run is over when its handler has returned or thrown
Over(r) == pc[r] \in {"done", "crashed"}

\* the scheduler calls the job again when the previous run is over
SequentialRuns(r) ==
  /\ \A q \in Runs : q < r => Over(q)
  /\ \A q \in Runs : q > r => pc[q] = "idle"

\* ------------------------------------------------------------------------
\* Read routes: GET /api/maturity-wall, GET /api/auctions (both versions of
\* the handler) and GET /api/debt.  A handler writes nothing to the tables,
\* so one action models a whole request; what its awaits meet (createDb, the
\* store query, the upstream fetch) are the inputs of the action.
\* ------------------------------------------------------------------------

Undefined == [undef |-> TRUE]

Range(seq) == {seq[i] : i \in DOMAIN seq}

\* Array.prototype.sort on <<key, value>> pairs: ascending by key, stable
InsertByKey(sorted, p) ==
  SubSeq(sorted, 1, Cardinality({i \in DOMAIN sorted : sorted[i][1] <= p[1]}))
    \o <<p>> \o
  SubSeq(sorted, Cardinality({i \in DOMAIN sorted : sorted[i][1] <= p[1]}) + 1, Len(sorted))

RECURSIVE SortByKey(_)
SortByKey(pairs) ==
  IF pairs = <<>> THEN <<>>
  ELSE InsertByKey(SortByKey(SubSeq(pairs, 1, Len(pairs) - 1)), pairs[Len(pairs)])

\* records sorted by the date in column col, ascending
SortByDate(seq, col) ==
  LET sorted == SortByKey([j \in DOMAIN seq |-> <<seq[j][col].date, seq[j]>>])
  IN  [i \in DOMAIN seq |-> sorted[i][2]]

Reverse(seq) == [i \in DOMAIN seq |-> seq[Len(seq) + 1 - i]]

RECURSIVE Sum(_)
Sum(numbers) == IF numbers = <<>> THEN 0 ELSE Head(numbers) + Sum(Tail(numbers))

\* what the ingest job has stored after a run over the full upstream feeds
Ingested ==
  [securities |-> InsertDateCusip(<<>>, SecurityValues(cleanSecurityRecords(UpstreamSecurities)),
                                  "recordDate", 0),
   auctions   |-> InsertDateCusip(<<>>, AuctionValues(cleanAuctionRecords(UpstreamAuctions)),
                                  "auctionDate", 0),
   debt       |-> InsertByDate(<<>>, DebtValues(cleanDebtRecord(FeedData("debt", "full"))), 0),
   \* the indicator rows of a run in which only the expense feed answered,
   \* alone or followed by the row of a run in which all four did
   indicators |->
     {<<IndicatorValues(cleanEconomicIndicators(FeedData("expense", "full"),
                                                JsNull, JsNull, JsNull))>>,
      InsertByDate(<<IndicatorValues(cleanEconomicIndicators(FeedData("expense", "full"),
                                                             JsNull, JsNull, JsNull))>>,
                   IndicatorValues(cleanEconomicIndicators(
                     FeedData("expense", "full"), FeedData("rates", "full"),
                     FeedData("yields", "full"), FeedData("realYields", "full"))), 0)}]

\* the day of a request, as YYYYMMDD
Todays == {20250210, 20270105}

getFullYear(today) == today \div 10000

\* query parameters
YearsParams == {JsNull, Chars(<<"3">>), Chars(<<"0">>), Chars(<<"x">>)}
TimeframeParams == {JsNull, Str("10y"), Str("2y")}
TypesParams ==
  {JsNull,
   [csv |-> <<[text |-> "bill", upper |-> "BILL"]>>],
   [csv |-> <<[text |-> "TIPS", upper |-> "TIPS"]>>],
   [csv |-> <<[text |-> "NOTE", upper |-> "NOTE"], [text |-> " bond", upper |-> "BOND"]>>]}

\* parseInt(text, 10) of a parameter: NaN, or the digits that lead the text
parseInt(c) ==
  IF PrefixIn(c, Digits) = 0 THEN NaN
  ELSE Whole(DigitsValue(SubSeq(c, 1, PrefixIn(c, Digits))))

validateYears(years) ==
  IF ~Truthy(years) THEN [isValid |-> TRUE, value |-> 10]
  ELSE IF parseInt(years.chars) = NaN
          \/ parseInt(years.chars).int < 1 \/ parseInt(years.chars).int > 30
  THEN [isValid |-> FALSE, value |-> 10]
  ELSE [isValid |-> TRUE, value |-> parseInt(years.chars).int]

validateTimeframe(timeframe) ==
  IF OrElse(timeframe, Str("1y")).str \notin {"1y", "3y", "5y", "10y"}
  THEN [isValid |-> FALSE, value |-> "1y"]
  ELSE [isValid |-> TRUE, value |-> OrElse(timeframe, Str("1y")).str]

validateSecurityTypes(types) ==
  IF ~Truthy(types) THEN [isValid |-> TRUE, value |-> <<"NOTE", "BOND">>]
  ELSE IF \E i \in DOMAIN types.csv :
            types.csv[i].upper \notin {"BILL", "NOTE", "BOND", "TIPS", "FRN", "CMB"}
  THEN [isValid |-> FALSE, value |-> <<"NOTE", "BOND">>]
  ELSE [isValid |-> TRUE, value |-> [i \in DOMAIN types.csv |-> types.csv[i].upper]]

\* the first day of the timeframe: the request's day, N years earlier
StartDate(today, timeframe) ==
  today - 10000 * (CASE timeframe = "1y" -> 1 [] timeframe = "3y" -> 3
                     [] timeframe = "5y" -> 5 [] timeframe = "10y" -> 10
                     [] OTHER -> 1)

\* --- aggregators

\* the number of binary digits of n >= 0
RECURSIVE BitLength(_)
BitLength(n) == IF n = 0 THEN 0 ELSE 1 + BitLength(n \div 2)

\* x >= 0 rounded to the nearest multiple of q, ties to the even multiple
RoundAt(x, q) ==
  LET lo == (x \div q) * q
  IN  IF 2 * (x - lo) < q THEN lo
      ELSE IF 2 * (x - lo) > q THEN lo + q
      ELSE IF (x \div q) % 2 = 0 THEN lo ELSE lo + q

\* a number of at most MantissaBits significant bits nearest to x >= 0
RoundToDouble(x) ==
  IF BitLength(x) <= MantissaBits THEN x
  ELSE RoundAt(x, 2 ^ (BitLength(x) - MantissaBits))

\* a + b on numbers: the exact sum, rounded
Plus(a, b) == IF a + b < 0 THEN 0 - RoundToDouble(0 - (a + b)) ELSE RoundToDouble(a + b)

\* bucket.total only grows with the securities of the five named types
AddToBucketNamedTypesOnly(bucket, type, amount) ==
  [bucket EXCEPT !.bills = IF type = "BILL" THEN Plus(@, amount) ELSE @,
                 !.notes = IF type = "NOTE" THEN Plus(@, amount) ELSE @,
                 !.bonds = IF type = "BOND" THEN Plus(@, amount) ELSE @,
                 !.tips  = IF type = "TIPS" THEN Plus(@, amount) ELSE @,
                 !.frn   = IF type = "FRN" THEN Plus(@, amount) ELSE @,
                 !.total = IF type \in {"BILL", "NOTE", "BOND", "TIPS", "FRN"}
                           THEN Plus(@, amount) ELSE @]

AddToBucket(bucket, type, amount) ==
  [bucket EXCEPT !.bills = IF type = "BILL" THEN Plus(@, amount) ELSE @,
                 !.notes = IF type = "NOTE" THEN Plus(@, amount) ELSE @,
                 !.bonds = IF type = "BOND" THEN Plus(@, amount) ELSE @,
                 !.tips  = IF type = "TIPS" THEN Plus(@, amount) ELSE @,
                 !.frn   = IF type = "FRN" THEN Plus(@, amount) ELSE @,
                 !.total = Plus(@, amount)]

RECURSIVE FillBuckets(_, _)
FillBuckets(buckets, securities) ==
  IF securities = <<>> THEN buckets
  ELSE FillBuckets(
         IF \/ Head(securities).maturityYear = JsNull
            \/ Head(securities).maturityYear.int = 0
            \/ Head(securities).maturityYear.int \notin DOMAIN buckets
         THEN buckets
         ELSE [buckets EXCEPT ![Head(securities).maturityYear.int] =
                 AddToBucket(@, Head(securities).securityType,
                             Head(securities).outstandingAmount.num)],
         Tail(securities))

\* amounts are summed in hundredths; Object.values() of an object with
\* integer keys, sorted by year
aggregateMaturityWall(securities, startYear, endYear) ==
  LET buckets == FillBuckets([year \in startYear..endYear |->
                                [year |-> year, bills |-> 0, notes |-> 0, bonds |-> 0,
                                 tips |-> 0, frn |-> 0, total |-> 0]],
                             securities)
  IN  [i \in 1..(endYear - startYear + 1) |-> buckets[startYear + i - 1]]

DemandPoints(filtered) ==
  [i \in DOMAIN filtered |->
     [date |-> filtered[i].auctionDate, ratio |-> filtered[i].bidToCoverRatio,
      type |-> filtered[i].securityTypeRaw, term |-> filtered[i].securityTerm]]

\* startDate is the text of a day; an empty text is no start date
aggregateAuctionDemand(auctions, securityTypes, startDate) ==
  DemandPoints(
    SortByDate(
      SelectSeq(auctions,
                LAMBDA a : /\ a.bidToCoverRatio # JsNull
                           /\ a.securityType \in Range(securityTypes)
                           /\ a.auctionDate.date >= startDate),
      "auctionDate"))

\* avgRatio is the quotient sum / count, kept as the two numbers
StatsOf(ratios) ==
  [count          |-> Len(ratios),
   avgRatio       |-> [sum |-> Sum(ratios), over |-> Len(ratios)],
   minRatio       |-> ratios[1],
   maxRatio       |-> ratios[Len(ratios)],
   medianRatio    |-> ratios[(Len(ratios) \div 2) + 1],
   belowThreshold |-> Cardinality({i \in DOMAIN ratios : ratios[i] < 200})]

calculateAuctionStats(auctions) ==
  IF auctions = <<>>
  THEN [count |-> 0, avgRatio |-> [sum |-> 0, over |-> 1], minRatio |-> 0,
        maxRatio |-> 0, medianRatio |-> 0, belowThreshold |-> 0]
  ELSE LET sorted == SortByKey([j \in DOMAIN auctions |->
                                  <<auctions[j].ratio.num, auctions[j].ratio.num>>])
       IN  StatsOf([i \in DOMAIN auctions |-> sorted[i][2]])

\* --- what a request met, told apart from what its handler did with it

\* the store, as the request finds it: no handle, a query that throws, rows
\* the request can use, or none
StoreOutcome(db, queryOk, usable) ==
  IF db = JsNull THEN "unavailable"
  ELSE IF ~queryOk THEN "throws"
  ELSE IF usable THEN "rows" ELSE "no_rows"

\* upstream, as a fetch of the request would find it
UpstreamOutcome(fetchOk) == IF fetchOk THEN upstream ELSE "throws"

NoRequest == [route |-> Null]

\* a request turned away before it reads anything
Rejected(route, status) ==
  [route |-> route, status |-> status, body |-> [error |-> TRUE],
   servedFrom |-> "none", store |-> "not_reached", upstream |-> "not_reached",
   upstreamCalls |-> 0]

\* 429 with 'Retry-After': Math.floor(resetIn / 1000)
RateLimitedRoundedDown(route, result) ==
  [route |-> route, status |-> 429, body |-> [error |-> TRUE],
   retryAfter |-> result.resetIn \div 1000,
   servedFrom |-> "none", store |-> "not_reached", upstream |-> "not_reached",
   upstreamCalls |-> 0]

\* 429 with 'Retry-After': Math.ceil(rateLimitResult.resetIn / 1000)
RateLimited(route, result) ==
  [route |-> route, status |-> 429, body |-> [error |-> TRUE],
   retryAfter |-> (result.resetIn + 999) \div 1000,
   servedFrom |-> "none", store |-> "not_reached", upstream |-> "not_reached",
   upstreamCalls |-> 0]

\* the store part of a handler ends in a response (hit), in nothing (miss),
\* or in an exception that reaches the handler's outer catch (threw)
FromStore(kind, body) == [kind |-> kind, body |-> body]

\* the upstream part of a handler ends in a response
Reply(status, body) == [status |-> status, body |-> body]

\* the handlers' common shape: the store part, then the upstream part unless
\* the store part has returned or thrown; `live` records what the upstream
\* part answers, or would have answered had it been reached
ServedAlwaysUpstream(route, fromStore, fromUpstream, store, upstreamState) ==
  [route |-> route, status |-> fromUpstream.status, body |-> fromUpstream.body,
   servedFrom |-> IF fromUpstream.status = 200 THEN "upstream" ELSE "none",
   store |-> store, upstream |-> upstreamState, upstreamCalls |-> 1,
   live |-> fromUpstream]

Served(route, fromStore, fromUpstream, store, upstreamState) ==
  IF fromStore.kind = "hit"
  THEN [route |-> route, status |-> 200, body |-> fromStore.body,
        servedFrom |-> "store", store |-> store, upstream |-> upstreamState,
        upstreamCalls |-> 0, live |-> fromUpstream]
  ELSE IF fromStore.kind = "threw"
  THEN [route |-> route, status |-> 500, body |-> [error |-> TRUE],
        servedFrom |-> "none", store |-> store, upstream |-> upstreamState,
        upstreamCalls |-> 0, live |-> fromUpstream]
  ELSE [route |-> route, status |-> fromUpstream.status, body |-> fromUpstream.body,
        servedFrom |-> IF fromUpstream.status = 200 THEN "upstream" ELSE "none",
        store |-> store, upstream |-> upstreamState, upstreamCalls |-> 1,
        live |-> fromUpstream]

\* --- GET /api/maturity-wall

SecurityFromRow(s) ==
  [recordDate        |-> s.recordDate,
   cusip             |-> s.cusip,
   securityType      |-> s.securityType,
   securityTypeDesc  |-> OrElse(s.securityTypeDesc, Str("")),
   securityClass     |-> s.securityClass,
   issueDate         |-> s.issueDate,
   maturityDate      |-> s.maturityDate,
   maturityYear      |-> s.maturityYear,
   outstandingAmount |-> decimalToNumber(s.outstandingAmount),
   interestRate      |-> IF Truthy(s.interestRate) THEN decimalToNumber(s.interestRate)
                         ELSE JsNull]

MaturityWallBody(cleanedSecurities, latestDate, today, years, source) ==
  [data |-> aggregateMaturityWall(cleanedSecurities, getFullYear(today) + 1,
                                  getFullYear(today) + 1 + years),
   recordDate |-> latestDate, yearsIncluded |-> years,
   totalSecuritiesProcessed |-> Len(cleanedSecurities), source |-> source]

\* the rows of the latest record date
LatestSecurities ==
  SelectSeq(treasurySecurities,
            LAMBDA s : s.recordDate = LatestDate(Range([i \in DOMAIN treasurySecurities |->
                                                          treasurySecurities[i].recordDate])))

MaturityWallStore(db, queryOk, today, years) ==
  IF db = JsNull THEN FromStore("miss", JsNull)
  ELSE IF ~queryOk THEN FromStore("miss", JsNull)
  ELSE IF treasurySecurities = <<>> THEN FromStore("miss", JsNull)
  ELSE IF LatestSecurities = <<>> THEN FromStore("miss", JsNull)
  ELSE FromStore("hit",
                 MaturityWallBody([i \in DOMAIN LatestSecurities |->
                                     SecurityFromRow(LatestSecurities[i])],
                                  LatestSecurities[1].recordDate, today, years, "database"))

MaturityWallUpstreamNoEmptyCheck(fetchOk, today, years) ==
  IF ~fetchOk THEN Reply(500, [error |-> TRUE])
  ELSE Reply(200, MaturityWallBody(<<>>, JsNull, today, years, "api"))

MaturityWallUpstream(fetchOk, today, years) ==
  IF ~fetchOk THEN Reply(500, [error |-> TRUE])
  ELSE IF FeedData("securities", upstream) = <<>> THEN Reply(404, [error |-> TRUE])
  ELSE Reply(200,
             MaturityWallBody(
               cleanSecurityRecords(
                 SelectSeq(FeedData("securities", upstream),
                           LAMBDA r : r.record_date = FeedData("securities", upstream)[1].record_date)),
               FeedData("securities", upstream)[1].record_date, today, years, "api"))

\* getDb() as the handlers call it: the cached handle is the module's state
UseDb(createOk) ==
  /\ dbHandle' = getDb(createOk).handle
  /\ dbCreations' = dbCreations + getDb(createOk).created
  /\ dbFailures' = dbFailures + getDb(createOk).failed

Request ==
  /\ requests < MaxRequests
  /\ requests' = requests + 1

MaturityWallGET(today, years, createOk, queryOk, fetchOk) ==
  /\ Request
  /\ checkRateLimit("maturity-wall:c1", RATE_LIMITS.data)
  /\ IF ~CheckOutcome(rateLimitStore["maturity-wall:c1"], now, RATE_LIMITS.data).allowed
     THEN /\ routeLast' = RateLimited("maturity-wall", CheckOutcome(rateLimitStore["maturity-wall:c1"], now,
                                                               RATE_LIMITS.data))
          /\ UNCHANGED <<dbHandle, dbCreations, dbFailures>>
     ELSE IF ~validateYears(years).isValid
     THEN /\ routeLast' = Rejected("maturity-wall", 400)
          /\ UNCHANGED <<dbHandle, dbCreations, dbFailures>>
     ELSE /\ UseDb(createOk)
          /\ routeLast' =
               Served("maturity-wall",
                      MaturityWallStore(getDb(createOk).db, queryOk, today,
                                        validateYears(years).value),
                      MaturityWallUpstream(fetchOk, today, validateYears(years).value),
                      StoreOutcome(getDb(createOk).db, queryOk, treasurySecurities # <<>>),
                      UpstreamOutcome(fetchOk))
  /\ UNCHANGED <<now, ticks, dbEnv, upstream, handlers, call, pager, tableVars, jobVars>>

\* --- GET /api/auctions

\* .where(gte(auctionDate, startDate)).orderBy(desc(auctionDate))
AuctionsSince(startDate) ==
  Reverse(SortByDate(SelectSeq(treasuryAuctions, LAMBDA a : a.auctionDate.date >= startDate),
                     "auctionDate"))

DemandFromRow(a) ==
  [date     |-> a.auctionDate,
   ratio    |-> IF Truthy(a.bidToCoverRatio) THEN decimalToNumber(a.bidToCoverRatio) ELSE Num(0),
   type     |-> OrElse(a.securityTypeRaw, Str(a.securityType)),
   term     |-> a.securityTerm,
   direct   |-> IF Truthy(a.directBidderAccepted)
                THEN decimalToNumber(a.directBidderAccepted) ELSE Undefined,
   indirect |-> IF Truthy(a.indirectBidderAccepted)
                THEN decimalToNumber(a.indirectBidderAccepted) ELSE Undefined,
   dealers  |-> IF Truthy(a.primaryDealerAccepted)
                THEN decimalToNumber(a.primaryDealerAccepted) ELSE Undefined,
   accepted |-> IF Truthy(a.acceptedAmount)
                THEN decimalToNumber(a.acceptedAmount) ELSE Undefined]

\* filteredDbAuctions.map(...).filter(a => a.ratio > 0).sort(by date)
CleanData(filteredDbAuctions) ==
  SortByDate(SelectSeq([i \in DOMAIN filteredDbAuctions |-> DemandFromRow(filteredDbAuctions[i])],
                       LAMBDA a : a.ratio.num > 0),
             "date")

AuctionsBody(data, timeframe, types, source) ==
  [data |-> data, stats |-> calculateAuctionStats(data), timeframe |-> timeframe,
   securityTypes |-> types, source |-> source]

\* the rows of the timeframe whose type is one of those asked for
FilteredDbAuctions(startDate, types) ==
  SelectSeq(AuctionsSince(startDate), LAMBDA a : a.securityType \in Range(types))

\* the query and what follows it, up to the response or the fall through
AuctionsQuery(startDate, timeframe, types) ==
  IF AuctionsSince(startDate) = <<>> THEN FromStore("miss", JsNull)
  ELSE IF FilteredDbAuctions(startDate, types) = <<>> THEN FromStore("miss", JsNull)
  ELSE FromStore("hit", AuctionsBody(CleanData(FilteredDbAuctions(startDate, types)),
                                     timeframe, types, "database"))

\* getDb(), and the query inside its own try/catch
AuctionsStore(db, queryOk, startDate, timeframe, types) ==
  IF db = JsNull THEN FromStore("miss", JsNull)
  ELSE IF ~queryOk THEN FromStore("miss", JsNull)
  ELSE AuctionsQuery(startDate, timeframe, types)

\* the `db` proxy, and the query under the handler's outer try only
LegacyAuctionsStore(db, queryOk, startDate, timeframe, types) ==
  IF db = JsNull THEN FromStore("threw", JsNull)
  ELSE IF ~queryOk THEN FromStore("threw", JsNull)
  ELSE AuctionsQuery(startDate, timeframe, types)

AuctionsUpstream(fetchOk, startDate, timeframe, types) ==
  IF ~fetchOk THEN Reply(500, [error |-> TRUE])
  ELSE IF FeedData("auctions", upstream) = <<>> THEN Reply(404, [error |-> TRUE])
  ELSE Reply(200,
             AuctionsBody(aggregateAuctionDemand(cleanAuctionRecords(FeedData("auctions", upstream)),
                                                 types, startDate),
                          timeframe, types, "api"))

\* rows the request can use: in its timeframe and of a type it asks for
UsableAuctions(startDate, types) ==
  \E i \in DOMAIN treasuryAuctions :
     /\ treasuryAuctions[i].auctionDate.date >= startDate
     /\ treasuryAuctions[i].securityType \in Range(types)

AuctionsGET(today, timeframe, types, createOk, queryOk, fetchOk) ==
  /\ Request
  /\ checkRateLimit("auctions:c1", RATE_LIMITS.data)
  /\ IF ~CheckOutcome(rateLimitStore["auctions:c1"], now, RATE_LIMITS.data).allowed
     THEN /\ routeLast' = RateLimited("auctions", CheckOutcome(rateLimitStore["auctions:c1"], now,
                                                               RATE_LIMITS.data))
          /\ UNCHANGED <<dbHandle, dbCreations, dbFailures>>
     ELSE IF ~validateTimeframe(timeframe).isValid \/ ~validateSecurityTypes(types).isValid
     THEN /\ routeLast' = Rejected("auctions", 400)
          /\ UNCHANGED <<dbHandle, dbCreations, dbFailures>>
     ELSE /\ UseDb(createOk)
          /\ routeLast' =
               Served("auctions",
                      AuctionsStore(getDb(createOk).db, queryOk,
                                    StartDate(today, validateTimeframe(timeframe).value),
                                    validateTimeframe(timeframe).value,
                                    validateSecurityTypes(types).value),
                      AuctionsUpstream(fetchOk,
                                       StartDate(today, validateTimeframe(timeframe).value),
                                       validateTimeframe(timeframe).value,
                                       validateSecurityTypes(types).value),
                      StoreOutcome(getDb(createOk).db, queryOk,
                                   UsableAuctions(StartDate(today, validateTimeframe(timeframe).value),
                                                  validateSecurityTypes(types).value)),
                      UpstreamOutcome(fetchOk))
  /\ UNCHANGED <<now, ticks, dbEnv, upstream, handlers, call, pager, tableVars, jobVars>>

\* typesParam ? typesParam.split(',') : ['NOTE', 'BOND']
LegacyTypes(types) ==
  IF Truthy(types) THEN [i \in DOMAIN types.csv |-> types.csv[i].text]
  ELSE <<"NOTE", "BOND">>

\* the handler of src/app/api/auctions/route.ts: no rate limit, no validation
LegacyAuctionsGET(today, timeframe, types, createOk, queryOk, fetchOk) ==
  /\ Request
  /\ UseDb(createOk)
  /\ routeLast' =
       Served("auctions-legacy",
              LegacyAuctionsStore(getDb(createOk).db, queryOk,
                                  StartDate(today, OrElse(timeframe, Str("1y")).str),
                                  OrElse(timeframe, Str("1y")).str, LegacyTypes(types)),
              AuctionsUpstream(fetchOk, StartDate(today, OrElse(timeframe, Str("1y")).str),
                               OrElse(timeframe, Str("1y")).str, LegacyTypes(types)),
              StoreOutcome(getDb(createOk).db, queryOk,
                           UsableAuctions(StartDate(today, OrElse(timeframe, Str("1y")).str),
                                          LegacyTypes(types))),
              UpstreamOutcome(fetchOk))
  /\ UNCHANGED <<rlVars, dbEnv, upstream, handlers, call, pager, tableVars, jobVars>>

\* --- GET /api/debt

\* `$${(amount / 1_000_000_000_000).toFixed(2)}T`: hundredths of a trillion,
\* rounded.  The model's amounts are hundredths of a dollar scaled down by
\* 10^10, so a trillion dollars is 10000 of them.
formatTrillions(amount) == [trillionsFixed2 |-> (amount + 50) \div 100]

DebtFromRow(snap) ==
  [totalDebt          |-> decimalToNumber(snap.totalPublicDebt),
   totalDebtFormatted |-> formatTrillions(decimalToNumber(snap.totalPublicDebt).num),
   debtHeldByPublic   |-> IF Truthy(snap.debtHeldByPublic)
                          THEN decimalToNumber(snap.debtHeldByPublic) ELSE JsNull,
   intragovernmental  |-> IF Truthy(snap.intragovernmentalHoldings)
                          THEN decimalToNumber(snap.intragovernmentalHoldings) ELSE JsNull,
   lastUpdated        |-> snap.recordDate]

DebtFromCleaned(cleaned) ==
  [totalDebt          |-> cleaned.totalPublicDebt,
   totalDebtFormatted |-> formatTrillions(cleaned.totalPublicDebt.num),
   debtHeldByPublic   |-> cleaned.debtHeldByPublic,
   intragovernmental  |-> cleaned.intragovernmentalHoldings,
   lastUpdated        |-> cleaned.recordDate]

\* the `db` proxy, and the query under the handler's outer try only
DebtStore(db, queryOk) ==
  IF db = JsNull THEN FromStore("threw", JsNull)
  ELSE IF ~queryOk THEN FromStore("threw", JsNull)
  ELSE IF dailyDebtSnapshots = <<>> THEN FromStore("miss", JsNull)
  ELSE FromStore("hit", DebtFromRow(Reverse(SortByDate(dailyDebtSnapshots, "recordDate"))[1]))

DebtUpstream(fetchOk) ==
  IF ~fetchOk THEN Reply(500, [error |-> TRUE])
  ELSE IF ~Truthy(FeedData("debt", upstream)) THEN Reply(404, [error |-> TRUE])
  ELSE IF cleanDebtRecord(FeedData("debt", upstream)) = JsNull THEN Reply(500, [error |-> TRUE])
  ELSE Reply(200, DebtFromCleaned(cleanDebtRecord(FeedData("debt", upstream))))

DebtGET(createOk, queryOk, fetchOk) ==
  /\ Request
  /\ UseDb(createOk)
  /\ routeLast' = Served("debt", DebtStore(getDb(createOk).db, queryOk), DebtUpstream(fetchOk),
                         StoreOutcome(getDb(createOk).db, queryOk, dailyDebtSnapshots # <<>>),
                         UpstreamOutcome(fetchOk))
  /\ UNCHANGED <<rlVars, dbEnv, upstream, handlers, call, pager, tableVars, jobVars>>

\* --- GET /api/health

\* percentages in hundredths; interestExpense in the unit of the model's
\* amounts (see formatTrillions), 1.1 trillion dollars being 11000 of them;
\* lastUpdated is the day the module was loaded
DEFAULT_METRICS ==
  [debtToGdp |-> Num(12450), interestExpense |-> Num(11000),
   averageInterestRate |-> Num(332), yieldCurveSpread |-> Num(15),
   realYield10y |-> Num(210), breakeven10y |-> Num(230),
   lastUpdated |-> IsoDate(20250210)]

\* latest.x ? parseFloat(latest.x) : null, as the history route has it
HealthMetricsNoDefaults(latest) ==
  [debtToGdp           |-> IF Truthy(latest.debtToGdpRatio)
                           THEN decimalToNumber(latest.debtToGdpRatio) ELSE JsNull,
   interestExpense     |-> IF Truthy(latest.interestExpense)
                           THEN decimalToNumber(latest.interestExpense) ELSE JsNull,
   averageInterestRate |-> IF Truthy(latest.averageInterestRate)
                           THEN decimalToNumber(latest.averageInterestRate) ELSE JsNull,
   yieldCurveSpread    |-> IF Truthy(latest.yieldCurveSpread)
                           THEN decimalToNumber(latest.yieldCurveSpread) ELSE JsNull,
   realYield10y        |-> IF Truthy(latest.realYield10y)
                           THEN decimalToNumber(latest.realYield10y) ELSE JsNull,
   breakeven10y        |-> IF Truthy(latest.breakeven10y)
                           THEN decimalToNumber(latest.breakeven10y) ELSE JsNull,
   lastUpdated         |-> latest.recordDate]

\* latest.x ? parseFloat(latest.x) : DEFAULT_METRICS.x
HealthMetrics(latest) ==
  [debtToGdp           |-> IF Truthy(latest.debtToGdpRatio)
                           THEN decimalToNumber(latest.debtToGdpRatio)
                           ELSE DEFAULT_METRICS.debtToGdp,
   interestExpense     |-> IF Truthy(latest.interestExpense)
                           THEN decimalToNumber(latest.interestExpense)
                           ELSE DEFAULT_METRICS.interestExpense,
   averageInterestRate |-> IF Truthy(latest.averageInterestRate)
                           THEN decimalToNumber(latest.averageInterestRate)
                           ELSE DEFAULT_METRICS.averageInterestRate,
   yieldCurveSpread    |-> IF Truthy(latest.yieldCurveSpread)
                           THEN decimalToNumber(latest.yieldCurveSpread)
                           ELSE DEFAULT_METRICS.yieldCurveSpread,
   realYield10y        |-> IF Truthy(latest.realYield10y)
                           THEN decimalToNumber(latest.realYield10y)
                           ELSE DEFAULT_METRICS.realYield10y,
   breakeven10y        |-> IF Truthy(latest.breakeven10y)
                           THEN decimalToNumber(latest.breakeven10y)
                           ELSE DEFAULT_METRICS.breakeven10y,
   lastUpdated         |-> latest.recordDate]

\* no limiter, no upstream: the latest row under an inner try/catch, the
\* defaults after it and in the outer catch
HealthGET(createOk, queryOk) ==
  /\ Request
  /\ UseDb(createOk)
  /\ routeLast' =
       [route |-> "health", status |-> 200,
        body |-> IF getDb(createOk).db # JsNull /\ queryOk /\ economicIndicators # <<>>
                 THEN HealthMetrics(Reverse(SortByDate(economicIndicators, "recordDate"))[1])
                 ELSE DEFAULT_METRICS,
        store |-> StoreOutcome(getDb(createOk).db, queryOk, economicIndicators # <<>>),
        upstream |-> "not_reached", upstreamCalls |-> 0]
  /\ UNCHANGED <<rlVars, dbEnv, upstream, handlers, call, pager, tableVars, jobVars>>

\* --- concurrent requests to GET /api/maturity-wall
\* One process runs the handlers; a handler runs until its next await and
\* another handler may run while it is suspended.  What a request answers is
\* modelled by MaturityWallGET; here each handler is followed from await to
\* await.

\* from the call to the first await: checkRateLimit, then the 429, or the
\* validation and its 400 (done), or getDb() and the store query (store), or
\* with no handle the upstream fetch (fetch)
HandlerStart(h, suspendAt) ==
  /\ handlers[h] = "idle"
  /\ checkRateLimit("maturity-wall:c1", RATE_LIMITS.data)
  /\ handlers' = [handlers EXCEPT ![h] =
                    IF CheckOutcome(rateLimitStore["maturity-wall:c1"], now,
                                    RATE_LIMITS.data).allowed
                    THEN suspendAt ELSE "done"]
  /\ UNCHANGED <<now, ticks, dbVars, upstream, routeLast, requests, call, pager, tableVars, jobVars>>

\* an await settles: after the store query the response or the upstream
\* fetch, after the upstream fetch the response
HandlerResume(h, suspendAt) ==
  /\ handlers[h] \in {"store", "fetch"}
  /\ handlers[h] = "fetch" => suspendAt = "done"
  /\ suspendAt # "store"
  /\ handlers' = [handlers EXCEPT ![h] = suspendAt]
  /\ UNCHANGED <<rlVars, dbVars, upstream, routeLast, requests, call, pager, tableVars, jobVars>>

\* --- the sanitizers and aggregators, called on their own

NotCalled == [fn |-> Null]

\* the keywords the type rules look for
Keywords ==
  {"bill", "tips", "inflation", "floating", "frn", "cmb", "cash management", "bond", "note"}

\* type descriptions: null, the empty string, and a text for every set of
\* keywords its lower-cased form can include
TypeTexts ==
  {JsNull, Desc("", {})} \cup {Desc("text", K) : K \in SUBSET Keywords}

NormalizeTypeCall(desc, auction) ==
  /\ call = NotCalled
  /\ call' = IF auction
             THEN [fn |-> "normalizeAuctionSecurityType", input |-> desc,
                   result |-> normalizeAuctionSecurityType(desc)]
             ELSE [fn |-> "normalizeSecurityType", input |-> desc,
                   result |-> normalizeSecurityType(desc)]
  /\ UNCHANGED <<rlVars, dbVars, upstream, routeLast, requests, handlers, pager, tableVars, jobVars>>

\* the sequences of at most n elements of S
SeqsUpTo(S, n) == UNION {[1..k -> S] : k \in 0..n}

\* amount texts: with separators, with a currency sign, N/A, zero, negative,
\* blank, missing
AmountTexts ==
  {Text.Amt1250, Text.Amt75, Text.AmtNA, Text.AmtZero, Text.AmtNegative, Text.AmtBlank, JsNull}

RatioTexts == {Text.Ratio250, Text.AmtZero, Text.AmtNA, JsNull}

\* the inputs a sanitizer is called on
SanitizerInputs(fn) ==
  CASE fn = "cleanSecurityRecords" ->
         SeqsUpTo({RawSecurity(Str("912A"), amt, Desc("Treasury Notes", {"note"}),
                               IsoDate(20270630)) : amt \in AmountTexts}, MaxRecords)
    [] fn = "cleanAuctionRecords" ->
         SeqsUpTo({[RawAuction(IsoDate(20250129), Str("91A3"), ratio, Desc("Note", {"note"}))
                      EXCEPT !.offering_amt = amt] :
                     ratio \in RatioTexts, amt \in {Text.Amt300, Text.AmtNegative, Text.AmtNA}},
                  MaxRecords - 1)
    [] fn = "cleanDebtRecord" ->
         {[record_date |-> IsoDate(20250203), tot_pub_debt_out_amt |-> total,
           debt_held_public_amt |-> held, intragov_hold_amt |-> Text.AmtNA] :
            total \in AmountTexts, held \in AmountTexts}
    [] fn = "cleanEconomicIndicators" ->
         {<<[record_date |-> IsoDate(20241231), fy_td_expense_amt |-> amt],
            FeedData("rates", "full"), FeedData("yields", "full"),
            FeedData("realYields", "full")>> : amt \in AmountTexts}

SanitizerCall(fn, input) ==
  /\ call = NotCalled
  /\ call' =
       [fn |-> fn, input |-> input,
        result |->
          CASE fn = "cleanSecurityRecords" -> cleanSecurityRecords(input)
            [] fn = "cleanAuctionRecords" -> cleanAuctionRecords(input)
            [] fn = "cleanDebtRecord" -> cleanDebtRecord(input)
            [] fn = "cleanEconomicIndicators" ->
                 cleanEconomicIndicators(input[1], input[2], input[3], input[4])]
  /\ UNCHANGED <<rlVars, dbVars, upstream, routeLast, requests, handlers, pager, tableVars, jobVars>>

\* cleaned securities an aggregator is called on: without a maturity year,
\* maturing before, in and after the range, with a small and a large amount
AggregatorSecurities ==
  {[maturityYear |-> year, outstandingAmount |-> Num(amount), securityType |-> type] :
     year \in {JsNull, Whole(2025), Whole(2026), Whole(2027)},
     amount \in {1, 2 ^ MantissaBits},
     type \in {"NOTE", "OTHER"}}

AggregateCall(securities, startYear, endYear) ==
  /\ call = NotCalled
  /\ call' = [fn |-> "aggregateMaturityWall",
              input |-> [securities |-> securities, startYear |-> startYear,
                         endYear |-> endYear],
              result |-> aggregateMaturityWall(securities, startYear, endYear)]
  /\ UNCHANGED <<rlVars, dbVars, upstream, routeLast, requests, handlers, pager, tableVars, jobVars>>

\* ------------------------------------------------------------------------
\* fetchAllPages
\* ------------------------------------------------------------------------

RATE_LIMIT_DELAY == 100

\* allData, page, hasMore are the locals of fetchAllPages; the rest is which
\* function was called, where it stands and what has happened: the page
\* numbers requested, the pages received, how each request settled, requests
\* not answered yet, the time since setTimeout was called, how long each
\* request after the first was waited for, and what the caller got back
PagerIdle ==
  [fn |-> Null, pc |-> "idle", allData |-> <<>>, page |-> 1, hasMore |-> TRUE,
   requested |-> <<>>, received |-> <<>>, settled |-> <<>>, outstanding |-> 0,
   elapsed |-> 0, waited |-> <<>>, result |-> Undefined]

\* the records of a page, told apart by page number and position
PageData(page, n) == [i \in 1..n |-> <<page, i>>]

\* the call, up to the await of the first fetch
FetchAllPagesCall ==
  /\ pager.pc = "idle"
  /\ pager' = [pager EXCEPT !.fn = "fetchAllPages",
                            !.pc = "fetching",
                            !.requested = Append(@, pager.page),
                            !.outstanding = @ + 1]
  /\ UNCHANGED <<rlVars, dbVars, upstream, routeLast, requests, handlers, call, tableVars, jobVars>>

\* a single-page call, fetchSecuritiesDetail() or fetchDebtToPenny(), up to
\* the await of the fetch in fetchFromTreasury
FetchFromTreasuryCall(fn) ==
  /\ pager.pc = "idle"
  /\ pager' = [pager EXCEPT !.fn = fn,
                            !.pc = "fetching",
                            !.requested = Append(@, 1),
                            !.outstanding = @ + 1]
  /\ UNCHANGED <<rlVars, dbVars, upstream, routeLast, requests, handlers, call, tableVars, jobVars>>

\* what the functions were called for
SinglePageResult(fn, data) ==
  IF fn = "fetchDebtToPenny" THEN (IF data = <<>> THEN JsNull ELSE data[1]) ELSE data

\* fetchAllPages after a page that was received
PageReceived(page, n, next) ==
  [pager EXCEPT !.pc = IF next # JsNull THEN "waiting" ELSE "returned",
                !.outstanding = @ - 1,
                !.allData = @ \o PageData(page, n),
                !.received = Append(@, [page |-> page, data |-> PageData(page, n),
                                        next |-> next]),
                !.settled = Append(@, "ok"),
                !.hasMore = next # JsNull,
                !.page = @ + 1,
                !.elapsed = 0,
                !.result = IF next # JsNull THEN @ ELSE pager.allData \o PageData(page, n)]

\* a single-page function after its response
SingleReceived(n, next) ==
  [pager EXCEPT !.pc = "returned",
                !.outstanding = @ - 1,
                !.received = Append(@, [page |-> 1, data |-> PageData(1, n), next |-> next]),
                !.settled = Append(@, "ok"),
                !.result = SinglePageResult(pager.fn, PageData(1, n))]

\* a failed request ends the call with what was received so far
PageResponseReturnsPartial(outcome, n, next) ==
  /\ pager.pc = "fetching"
  /\ pager' =
       IF outcome # "ok"
       THEN [pager EXCEPT !.pc = "returned", !.outstanding = @ - 1,
                          !.settled = Append(@, outcome),
                          !.result = pager.allData]
       ELSE IF pager.fn = "fetchAllPages" THEN PageReceived(pager.page, n, next)
       ELSE SingleReceived(n, next)
  /\ UNCHANGED <<rlVars, dbVars, upstream, routeLast, requests, handlers, call, tableVars, jobVars>>

\* the fetch settles.  A rejected fetch, or a response that is not ok, makes
\* the function throw; the single-page functions log and throw again.
\* Otherwise fetchAllPages pushes the records, sets hasMore and page, and
\* returns or calls setTimeout, and a single-page function returns the
\* records of the response.
PageResponse(outcome, n, next) ==
  /\ pager.pc = "fetching"
  /\ pager' =
       IF outcome # "ok"
       THEN [pager EXCEPT !.pc = "threw", !.outstanding = @ - 1,
                          !.settled = Append(@, outcome)]
       ELSE IF pager.fn = "fetchAllPages" THEN PageReceived(pager.page, n, next)
       ELSE SingleReceived(n, next)
  /\ UNCHANGED <<rlVars, dbVars, upstream, routeLast, requests, handlers, call, tableVars, jobVars>>

\* time passes while the timer is pending
TimerTick(d) ==
  /\ pager.pc = "waiting"
  /\ pager.elapsed < RATE_LIMIT_DELAY
  /\ pager' = [pager EXCEPT !.elapsed = @ + d]
  /\ UNCHANGED <<rlVars, dbVars, upstream, routeLast, requests, handlers, call, tableVars, jobVars>>

\* the timer fires without the delay having passed
TimerFiresEarly ==
  /\ pager.pc = "waiting"
  /\ pager.page <= MaxPages
  /\ pager' = [pager EXCEPT !.pc = "fetching",
                            !.requested = Append(@, pager.page),
                            !.outstanding = @ + 1,
                            !.waited = Append(@, pager.elapsed)]
  /\ UNCHANGED <<rlVars, dbVars, upstream, routeLast, requests, handlers, call, tableVars, jobVars>>

\* the timer fires and the loop goes round, up to the await of the next fetch
TimerFires ==
  /\ pager.pc = "waiting"
  /\ pager.elapsed >= RATE_LIMIT_DELAY
  /\ pager.page <= MaxPages
  /\ pager' = [pager EXCEPT !.pc = "fetching",
                            !.requested = Append(@, pager.page),
                            !.outstanding = @ + 1,
                            !.waited = Append(@, pager.elapsed)]
  /\ UNCHANGED <<rlVars, dbVars, upstream, routeLast, requests, handlers, call, tableVars, jobVars>>

RouteStart ==
  /\ routeLast = NoRequest
  /\ requests = 0
  /\ handlers = [h \in 1..MaxHandlers |-> "idle"]
  /\ call = NotCalled
  /\ pager = PagerIdle

StoreStart ==
  /\ dbEnv \in [isDatabaseConfigured : BOOLEAN, skipDatabase : BOOLEAN]
  /\ dbHandle = JsNull
  /\ dbCreations = 0
  /\ dbFailures = 0
  /\ treasurySecurities = <<>>
  /\ treasuryAuctions = <<>>
  /\ dailyDebtSnapshots = <<>>
  /\ economicIndicators = <<>>
  /\ maturityWallAggregates = <<>>
  /\ etlJobLog = <<>>

JobStart ==
  /\ pc = [r \in Runs |-> "idle"]
  /\ authHeader = [r \in Runs |-> JsNull]
  /\ results = [r \in Runs |-> ResultsInit]
  /\ loc = [r \in Runs |-> LocInit]
  /\ inflight = [r \in Runs |-> {}]
  /\ response = [r \in Runs |-> NoResponse]
  /\ trace = [r \in Runs |-> <<>>]
  /\ io = [r \in Runs |-> IoInit]
  /\ faults = 0

InitRL ==
  /\ RLStart
  /\ StoreStart
  /\ dbEnv = [isDatabaseConfigured |-> FALSE, skipDatabase |-> FALSE]
  /\ upstream = "full"
  /\ cronEnv = [NODE_ENV |-> "production", CRON_SECRET |-> JsNull]
  /\ JobStart
  /\ RouteStart

NextRL ==
  \/ \E identifier \in Identifiers : RLCall(identifier)
  \/ \E d \in TimeSteps : Tick(d)

SpecRL == InitRL /\ [][NextRL]_vars

InitIngest ==
  /\ RLStart
  /\ StoreStart
  /\ upstream \in {"full", "empty"}
  /\ cronEnv \in CronEnvs
  /\ JobStart
  /\ RouteStart

\* one ingest request, with every combination of failing fetches and statements
NextIngest ==
  \/ \E header \in AuthHeaders, createOk \in BOOLEAN :
        IngestRequest(1, header, createOk)
  \/ \E r \in Runs, ok \in BOOLEAN : LogStart(r, ok)
  \/ \E r \in Runs, ok \in BOOLEAN : DebtFetch(r, ok)
  \/ \E r \in Runs, ok \in BOOLEAN : DebtInsert(r, ok)
  \/ \E r \in Runs, ok \in BOOLEAN : SecuritiesFetch(r, ok)
  \/ \E r \in Runs, ok \in BOOLEAN : SecuritiesInsert(r, ok)
  \/ \E r \in Runs, ok \in BOOLEAN : AuctionsFetch(r, ok)
  \/ \E r \in Runs, ok \in BOOLEAN : AuctionsInsert(r, ok)
  \/ \E r \in Runs, feed \in IndicatorFeeds, ok \in BOOLEAN :
        IndicatorFetchSettle(r, feed, ok)
  \/ \E r \in Runs, ok \in BOOLEAN : IndicatorsInsert(r, ok)
  \/ \E r \in Runs, ok \in BOOLEAN : Aggregates(r, ok)
  \/ \E r \in Runs, ok \in BOOLEAN : LogCompleted(r, ok)
  \/ \E r \in Runs, ok \in BOOLEAN : LogFailed(r, ok)

SpecIngest == InitIngest /\ [][NextIngest]_vars

\* the job is run again and again over the same upstream data, with at most
\* MaxFaults failing fetches or statements
NextReingest ==
  \/ \E r \in Runs, header \in AuthHeaders, createOk \in BOOLEAN :
        SequentialRuns(r) /\ IngestRequest(r, header, createOk)
  \/ \E r \in Runs, ok \in BOOLEAN : (ok \/ faults < MaxFaults) /\ LogStart(r, ok)
  \/ \E r \in Runs, ok \in BOOLEAN : (ok \/ faults < MaxFaults) /\ DebtFetch(r, ok)
  \/ \E r \in Runs, ok \in BOOLEAN : (ok \/ faults < MaxFaults) /\ DebtInsert(r, ok)
  \/ \E r \in Runs, ok \in BOOLEAN : (ok \/ faults < MaxFaults) /\ SecuritiesFetch(r, ok)
  \/ \E r \in Runs, ok \in BOOLEAN : (ok \/ faults < MaxFaults) /\ SecuritiesInsert(r, ok)
  \/ \E r \in Runs, ok \in BOOLEAN : (ok \/ faults < MaxFaults) /\ AuctionsFetch(r, ok)
  \/ \E r \in Runs, ok \in BOOLEAN : (ok \/ faults < MaxFaults) /\ AuctionsInsert(r, ok)
  \/ \E r \in Runs, feed \in IndicatorFeeds, ok \in BOOLEAN :
        (ok \/ faults < MaxFaults) /\ IndicatorFetchSettle(r, feed, ok)
  \/ \E r \in Runs, ok \in BOOLEAN : (ok \/ faults < MaxFaults) /\ IndicatorsInsert(r, ok)
  \/ \E r \in Runs, ok \in BOOLEAN : (ok \/ faults < MaxFaults) /\ Aggregates(r, ok)
  \/ \E r \in Runs, ok \in BOOLEAN : (ok \/ faults < MaxFaults) /\ LogCompleted(r, ok)
  \/ \E r \in Runs, ok \in BOOLEAN : (ok \/ faults < MaxFaults) /\ LogFailed(r, ok)

SpecReingest == InitIngest /\ [][NextReingest]_vars

\* two requests to the job overlap: a handler runs up to its next await,
\* where the other may run.  The store is configured and the secret is set;
\* the fetches and the inserts of the steps succeed, and at most MaxFaults of
\* the statements outside the steps (the job-log inserts, the revalidation)
\* throw
InitOverlap ==
  /\ RLStart
  /\ StoreStart
  /\ dbEnv = [isDatabaseConfigured |-> TRUE, skipDatabase |-> FALSE]
  /\ upstream = "full"
  /\ cronEnv = [NODE_ENV |-> "production", CRON_SECRET |-> Str("s3cret")]
  /\ JobStart
  /\ RouteStart

NextOverlap ==
  \/ \E r \in Runs, header \in AuthHeaders, createOk \in BOOLEAN :
        IngestRequest(r, header, createOk)
  \/ \E r \in Runs, ok \in BOOLEAN : (ok \/ faults < MaxFaults) /\ LogStart(r, ok)
  \/ \E r \in Runs : DebtFetch(r, TRUE)
  \/ \E r \in Runs : DebtInsert(r, TRUE)
  \/ \E r \in Runs : SecuritiesFetch(r, TRUE)
  \/ \E r \in Runs : SecuritiesInsert(r, TRUE)
  \/ \E r \in Runs : AuctionsFetch(r, TRUE)
  \/ \E r \in Runs : AuctionsInsert(r, TRUE)
  \/ \E r \in Runs, feed \in IndicatorFeeds : IndicatorFetchSettle(r, feed, TRUE)
  \/ \E r \in Runs : IndicatorsInsert(r, TRUE)
  \/ \E r \in Runs, ok \in BOOLEAN : (ok \/ faults < MaxFaults) /\ Aggregates(r, ok)
  \/ \E r \in Runs, ok \in BOOLEAN : (ok \/ faults < MaxFaults) /\ LogCompleted(r, ok)
  \/ \E r \in Runs, ok \in BOOLEAN : (ok \/ faults < MaxFaults) /\ LogFailed(r, ok)

SpecOverlap == InitOverlap /\ [][NextOverlap]_vars

\* concurrent requests of one client to one rate-limited route, the window
\* of the client new or two requests short of full
InitHandlers ==
  /\ now = 0 /\ ticks = 0 /\ lastCleanup = 0
  /\ \E used \in {0, RATE_LIMITS.data.limit - 2} :
        /\ rateLimitStore = [k \in Keys |->
                               IF k = "maturity-wall:c1" /\ used > 0
                               THEN [count |-> used, timestamp |-> 0] ELSE NoEntry]
        /\ unsweptStore = rateLimitStore
        /\ allowedInWindow = [k \in Keys |-> IF k = "maturity-wall:c1" THEN used ELSE 0]
  /\ rlLast = NoCall
  /\ StoreStart
  /\ dbEnv = [isDatabaseConfigured |-> TRUE, skipDatabase |-> FALSE]
  /\ upstream = "full"
  /\ cronEnv = [NODE_ENV |-> "production", CRON_SECRET |-> JsNull]
  /\ JobStart
  /\ RouteStart

NextHandlers ==
  \/ \E h \in 1..MaxHandlers, suspendAt \in {"store", "fetch", "done"} :
        HandlerStart(h, suspendAt)
  \/ \E h \in 1..MaxHandlers, suspendAt \in {"fetch", "done"} : HandlerResume(h, suspendAt)
  \/ \E d \in TimeSteps : Tick(d)

SpecHandlers == InitHandlers /\ [][NextHandlers]_vars

\* one call of a sanitizer or an aggregator on an input of its domain
InitFunctions ==
  /\ RLStart
  /\ StoreStart
  /\ dbEnv = [isDatabaseConfigured |-> FALSE, skipDatabase |-> FALSE]
  /\ upstream = "full"
  /\ cronEnv = [NODE_ENV |-> "production", CRON_SECRET |-> JsNull]
  /\ JobStart
  /\ RouteStart

NextFunctions ==
  \/ \E desc \in TypeTexts, auction \in BOOLEAN : NormalizeTypeCall(desc, auction)
  \/ \E fn \in {"cleanSecurityRecords", "cleanAuctionRecords", "cleanDebtRecord",
                 "cleanEconomicIndicators"} :
        \E input \in SanitizerInputs(fn) : SanitizerCall(fn, input)
  \/ \E securities \in SeqsUpTo(AggregatorSecurities, MaxRecords), endYear \in {2026, 2028} :
        AggregateCall(securities, 2026, endYear)

SpecFunctions == InitFunctions /\ [][NextFunctions]_vars

\* one call of fetchAllPages against an upstream that answers each request
\* with a page of zero to two records and a next link or none, or with a
\* response that is not ok, or not at all
InitPages == InitFunctions

PageSettles ==
  \E outcome \in {"ok", "not_ok", "rejected"}, n \in 0..2, next \in {JsNull, Str("next")} :
     PageResponse(outcome, n, next)

NextPages ==
  \/ FetchAllPagesCall
  \/ PageSettles
  \/ \E d \in {50, 100} : TimerTick(d)
  \/ TimerFires

\* a fetch settles, time passes and a due timer fires
SpecPages ==
  /\ InitPages /\ [][NextPages]_vars
  /\ WF_vars(PageSettles)
  /\ WF_vars(\E d \in {50, 100} : TimerTick(d))
  /\ WF_vars(TimerFires)

\* one call of a function of the client, paginated or single-page
NextClient ==
  \/ NextPages
  \/ \E fn \in {"fetchSecuritiesDetail", "fetchDebtToPenny"} : FetchFromTreasuryCall(fn)

SpecClient ==
  /\ InitPages /\ [][NextClient]_vars
  /\ WF_vars(PageSettles)
  /\ WF_vars(\E d \in {50, 100} : TimerTick(d))
  /\ WF_vars(TimerFires)

\* read requests against a store that is empty or holds what a run of the
\* job has stored, with the limiter's windows new, or full and opened 600,
\* 60000 or 60001 ms ago, and the store handle not yet created or cached
InitRoutes ==
  /\ ticks = 0 /\ lastCleanup = 0
  /\ \E used \in {0, RATE_LIMITS.data.limit} :
        /\ now \in IF used = 0 THEN {0} ELSE {600, 60000, 60001}
        /\ rateLimitStore = [k \in Keys |->
                               IF k \notin Identifiers /\ used > 0
                               THEN [count |-> used, timestamp |-> 0] ELSE NoEntry]
        /\ unsweptStore = rateLimitStore
        /\ allowedInWindow = [k \in Keys |-> IF k \notin Identifiers THEN used ELSE 0]
  /\ rlLast = NoCall
  /\ dbEnv \in [isDatabaseConfigured : BOOLEAN, skipDatabase : BOOLEAN]
  /\ \E cached \in {c \in BOOLEAN : c => isDbAvailable} :
        /\ dbHandle = IF cached THEN Str("drizzle") ELSE JsNull
        /\ dbCreations = IF cached THEN 1 ELSE 0
        /\ dbFailures = 0
  /\ \E stored \in BOOLEAN :
        /\ treasurySecurities = IF stored THEN Ingested.securities ELSE <<>>
        /\ treasuryAuctions = IF stored THEN Ingested.auctions ELSE <<>>
        /\ dailyDebtSnapshots = IF stored THEN Ingested.debt ELSE <<>>
        /\ economicIndicators \in IF stored THEN Ingested.indicators ELSE {<<>>}
  /\ maturityWallAggregates = <<>>
  /\ etlJobLog = <<>>
  /\ upstream \in {"full", "empty", "unusable"}
  /\ cronEnv = [NODE_ENV |-> "production", CRON_SECRET |-> JsNull]
  /\ JobStart
  /\ RouteStart

NextRoutes ==
  \/ \E today \in Todays, years \in YearsParams, createOk, queryOk, fetchOk \in BOOLEAN :
        MaturityWallGET(today, years, createOk, queryOk, fetchOk)
  \/ \E today \in Todays, timeframe \in TimeframeParams, types \in TypesParams,
        createOk, queryOk, fetchOk \in BOOLEAN :
        AuctionsGET(today, timeframe, types, createOk, queryOk, fetchOk)
  \/ \E today \in Todays, timeframe \in TimeframeParams, types \in TypesParams,
        createOk, queryOk, fetchOk \in BOOLEAN :
        LegacyAuctionsGET(today, timeframe, types, createOk, queryOk, fetchOk)
  \/ \E createOk, queryOk, fetchOk \in BOOLEAN : DebtGET(createOk, queryOk, fetchOk)
  \/ \E createOk, queryOk \in BOOLEAN : HealthGET(createOk, queryOk)

SpecRoutes == InitRoutes /\ [][NextRoutes]_vars

\* ------------------------------------------------------------------------
\* C1
\* ------------------------------------------------------------------------

\* C1: a checkRateLimit call is allowed exactly when the identifier had no
\* live window (no entry, or now - entry.timestamp > interval) or fewer than
\* `limit` calls had been allowed in the live window; a call that found no
\* live window leaves a fresh window with count 1 that started now; no window
\* ever holds more than `limit` allowed calls.
RateLimitContract ==
  /\ rlLast # NoCall =>
       /\ rlLast.result.allowed <=>
            (rlLast.noLiveWindow \/ rlLast.allowedBefore < rlLast.config.limit)
       /\ rlLast.noLiveWindow =>
            /\ rateLimitStore[rlLast.identifier] =
                 [count |-> 1, timestamp |-> rlLast.at]
            /\ rlLast.result.remaining = rlLast.config.limit - 1
       /\ ~rlLast.result.allowed =>
            /\ rlLast.allowedBefore = rlLast.config.limit
            /\ rlLast.result.resetIn >= 0
  /\ \A k \in Identifiers : allowedInWindow[k] <= ConfigOf[k].limit

\* a fourth call inside the window of idA was denied, after three allowed
RateLimitDeniedReached ==
  /\ rlLast # NoCall
  /\ rlLast.identifier = "idA"
  /\ ~rlLast.result.allowed
  /\ rlLast.allowedBefore = 3

\* ------------------------------------------------------------------------
\* C2
\* ------------------------------------------------------------------------

FullTrace ==
  << <<"debt", "start">>, <<"debt", "end">>,
     <<"securities", "start">>, <<"securities", "end">>,
     <<"auctions", "start">>, <<"auctions", "end">>,
     <<"indicators", "start">>, <<"indicators", "end">>,
     <<"aggregates", "start">>, <<"aggregates", "end">> >>

IsPrefix(a, b) == Len(a) <= Len(b) /\ SubSeq(b, 1, Len(a)) = a

\* the step a suspended handler is in
StepOfPc(p) ==
  CASE p \in {"debt_fetch", "debt_insert"} -> "debt"
    [] p \in {"securities_fetch", "securities_insert"} -> "securities"
    [] p \in {"auctions_fetch", "auctions_insert"} -> "auctions"
    [] p \in {"indicators_fetch", "indicators_insert"} -> "indicators"
    [] p = "aggregates" -> "aggregates"
    [] OTHER -> "none"

PassedChecks(r) ==
  \/ pc[r] \notin {"idle", "done"}
  \/ pc[r] = "done" /\ response[r].status \in {200, 500}

StepsOver(r) ==
  \/ pc[r] \in {"log_completed", "log_failed", "crashed"}
  \/ pc[r] = "done" /\ response[r].status \in {200, 500}

ClaimedUnauthorized(r) ==
  /\ pc[r] # "idle"
  /\ cronEnv.NODE_ENV # "development"
  /\ \/ cronEnv.CRON_SECRET \in {JsNull, Str("")}
     \/ authHeader[r] = JsNull
     \/ authHeader[r] # Chars(<<"Bearer", " ", cronEnv.CRON_SECRET.str>>)

\* C3: outside development mode a request without the header
\* 'Bearer <CRON_SECRET>', and any request when CRON_SECRET is unset, is
\* answered 401 at once: no job-log write, no fetch, no insert, no step, no
\* job-log row.
UnauthorizedRunsNothing ==
  \A r \in Runs :
    ClaimedUnauthorized(r) =>
      /\ pc[r] = "done"
      /\ response[r] = [status |-> 401]
      /\ io[r] = IoInit
      /\ trace[r] = <<>>
      /\ \A i \in 1..Len(etlJobLog) : etlJobLog[i].run # r

\* a production request with the wrong bearer token was answered
WrongTokenRejected ==
  \E r \in Runs :
    /\ pc[r] = "done"
    /\ cronEnv = [NODE_ENV |-> "production", CRON_SECRET |-> Str("s3cret")]
    /\ authHeader[r] = BearerOf(Str("wrong"))
    /\ response[r].status = 401

\* ------------------------------------------------------------------------
\* C4
\* ------------------------------------------------------------------------

HasStartedRow(r) ==
  \E i \in 1..Len(etlJobLog) :
    etlJobLog[i].run = r /\ etlJobLog[i].status = "started"

\* C4 as stated: a run that has issued a fetch has a `started` row
StartedRowBeforeAnyStep ==
  \A r \in Runs : io[r].fetch => HasStartedRow(r)

\* C4 as amended: before the first fetch is issued the insert of the
\* `started` row has been issued and has settled; the row is in the log from
\* then on exactly when that insert did not throw, and it is the first row of
\* the run.
StartedInsertSettledBeforeSteps ==
  \A r \in Runs :
    /\ io[r].fetch => io[r].logWrite /\ io[r].startLog \in {"written", "threw"}
    /\ io[r].startLog = "none" => trace[r] = <<>> /\ ~io[r].fetch /\ ~io[r].insert
    /\ io[r].startLog = "written" <=> HasStartedRow(r)
    /\ \A i \in 1..Len(etlJobLog) :
         etlJobLog[i].run = r /\ etlJobLog[i].status # "started" =>
           \A j \in 1..Len(etlJobLog) :
             etlJobLog[j].run = r /\ etlJobLog[j].status = "started" => j < i

\* the first fetch of a run is on its way and its `started` row is in the log
StartedRowThenFirstFetch ==
  \E r \in Runs : pc[r] = "debt_fetch" /\ HasStartedRow(r)

\* ------------------------------------------------------------------------
\* C5
\* ------------------------------------------------------------------------

TerminalRows(r) ==
  {i \in 1..Len(etlJobLog) :
     etlJobLog[i].run = r /\ etlJobLog[i].status \in {"completed", "failed"}}

\* C5: a run that started its steps and returned a response has written
\* exactly one terminal row, `completed` with status 200 and `failed` with
\* status 500; no run ever has two; a run that is over without one is a run
\* whose insert of the `failed` row threw.
ExactlyOneTerminalRow ==
  \A r \in Runs :
    /\ Cardinality(TerminalRows(r)) <= 1
    /\ pc[r] = "done" /\ response[r].status \in {200, 500} =>
         \E i \in TerminalRows(r) :
           etlJobLog[i].status = (IF response[r].status = 200 THEN "completed" ELSE "failed")
    /\ TerminalRows(r) # {} => pc[r] = "done"
    /\ pc[r] = "crashed" => response[r] = NoResponse

\* a run answered 500 after writing its `failed` row
FailedRowWritten ==
  \E r \in Runs :
    /\ pc[r] = "done"
    /\ response[r].status = 500
    /\ \E i \in TerminalRows(r) : etlJobLog[i].status = "failed"

\* ------------------------------------------------------------------------
\* C6
\* ------------------------------------------------------------------------

\* no two rows of a table share the natural key
NoDuplicateKey(table, dateCol, withCusip) ==
  \A i, j \in 1..Len(table) :
    (i # j /\ table[i][dateCol] = table[j][dateCol]
      /\ (withCusip => table[i].cusip = table[j].cusip)) => FALSE

\* every row was created by the first run
AllFromFirstRun(table) == \A i \in 1..Len(table) : table[i].createdAt = 1

\* C6 as stated: when a first run has persisted every record and the job is
\* run again over the same data, no table holds two rows with the same
\* natural key, null cusips included, and every row is still the one the
\* first run created.
SecondRunAddsNothing ==
  (/\ \A r \in Runs : pc[r] = "done" /\ response[r].status = 200
   /\ faults = 0)
  =>
  /\ NoDuplicateKey(treasurySecurities, "recordDate", TRUE)
  /\ NoDuplicateKey(treasuryAuctions, "auctionDate", TRUE)
  /\ NoDuplicateKey(dailyDebtSnapshots, "recordDate", FALSE)
  /\ NoDuplicateKey(economicIndicators, "recordDate", FALSE)
  /\ AllFromFirstRun(treasurySecurities)
  /\ AllFromFirstRun(treasuryAuctions)
  /\ AllFromFirstRun(dailyDebtSnapshots)
  /\ AllFromFirstRun(economicIndicators)

\* ------------------------------------------------------------------------
\* C7
\* ------------------------------------------------------------------------

ResolverRoutes == {"maturity-wall", "auctions", "auctions-legacy"}

StoreMisses == {"unavailable", "no_rows", "throws"}

\* C7: a GET /maturity-wall or GET /auctions request whose store query
\* returned rows it can use is answered 200 with source "database", and the
\* upstream client is not called during the request (so the request succeeds
\* whatever the state of upstream).
StoreHitServedFromStore ==
  (routeLast.route \in ResolverRoutes /\ routeLast.store = "rows")
    => /\ routeLast.status = 200
       /\ routeLast.body.source = "database"
       /\ routeLast.upstreamCalls = 0

\* C7 witness: a request served from the store while an upstream fetch would
\* have thrown
StoreHitWhileUpstreamFails ==
  /\ routeLast.route = "maturity-wall"
  /\ routeLast.store = "rows"
  /\ routeLast.upstream = "throws"
  /\ routeLast.status = 200
  /\ routeLast.body.source = "database"

\* ------------------------------------------------------------------------
\* C8
\* ------------------------------------------------------------------------

\* C8: a GET /maturity-wall or GET /auctions request that finds the store
\* handle unavailable, zero rows, or a throwing store query calls the upstream
\* client, and when upstream returns records it is answered 200 with source
\* "api"; the store exception is not what the caller gets.
StoreMissServedFromUpstream ==
  (routeLast.route \in ResolverRoutes /\ routeLast.store \in StoreMisses)
    => /\ routeLast.upstreamCalls = 1
       /\ routeLast.upstream \in {"full", "unusable"}
            => (routeLast.status = 200 /\ routeLast.body.source = "api")

\* ------------------------------------------------------------------------
\* C9
\* ------------------------------------------------------------------------

\* C9: GET /debt answers with the latest stored snapshot when the store has
\* one; when the store is not configured, empty, or its query throws, it
\* fetches from upstream and answers with that result instead of an error.
DebtStoreFirstLiveFallback ==
  routeLast.route = "debt"
    => /\ routeLast.store = "rows"
            => (routeLast.status = 200 /\ routeLast.servedFrom = "store")
       /\ routeLast.store \in StoreMisses
            => /\ routeLast.upstreamCalls = 1
               /\ routeLast.upstream = "full"
                    => (routeLast.status = 200 /\ routeLast.servedFrom = "upstream")

\* ------------------------------------------------------------------------
\* C10
\* ------------------------------------------------------------------------

HealthNeverErrors ==
  routeLast.route = "health"
    => /\ routeLast.status = 200
       /\ DOMAIN routeLast.body = DOMAIN DEFAULT_METRICS
       /\ \A f \in DOMAIN DEFAULT_METRICS \ {"lastUpdated"} :
             DOMAIN routeLast.body[f] = {"num"}
       /\ IsDate(routeLast.body.lastUpdated)
       /\ routeLast.store \in StoreMisses => routeLast.body = DEFAULT_METRICS
       /\ routeLast.store = "rows"
            => \E i \in DOMAIN economicIndicators :
                  /\ \A j \in DOMAIN economicIndicators :
                        economicIndicators[j].recordDate.date
                          <= economicIndicators[i].recordDate.date
                  /\ routeLast.body.lastUpdated = economicIndicators[i].recordDate
                  /\ \A f \in DOMAIN DEFAULT_METRICS \ {"lastUpdated"} :
                        LET col == IF f = "debtToGdp" THEN "debtToGdpRatio" ELSE f
                        IN  routeLast.body[f] =
                              IF economicIndicators[i][col] = JsNull
                              THEN DEFAULT_METRICS[f]
                              ELSE Num(economicIndicators[i][col].dec)

\* C11 witness: the latest row has an interest expense and no average
\* rate; the answer carries the stored expense and the default rate
HealthRowWithDefaultsFilled ==
  /\ routeLast.route = "health"
  /\ routeLast.store = "rows"
  /\ routeLast.body.interestExpense # DEFAULT_METRICS.interestExpense
  /\ routeLast.body.averageInterestRate = DEFAULT_METRICS.averageInterestRate

\* ------------------------------------------------------------------------
\* C12
\* ------------------------------------------------------------------------

\* C12: an authorized ingest request made when no store is configured, or
\* when the skip-store flag is set, is answered 503 with no job-log write, no
\* fetch, no insert, no step and no job-log row; an unauthorized request is
\* answered 401 whether or not a store is configured.
NoStoreRejectedAfterAuthorization ==
  \A r \in Runs :
    pc[r] # "idle" =>
      /\ ClaimedUnauthorized(r) => response[r] = [status |-> 401]
      /\ (~ClaimedUnauthorized(r) /\ ~isDbAvailable)
            => /\ pc[r] = "done"
               /\ response[r] = [status |-> 503]
               /\ io[r] = IoInit
               /\ trace[r] = <<>>
               /\ \A i \in 1..Len(etlJobLog) : etlJobLog[i].run # r

\* C12 witness: the right bearer token, the skip-store flag set on a
\* configured store, and the answer 503
AuthorizedWithoutStoreGot503 ==
  \E r \in Runs :
    /\ pc[r] = "done"
    /\ cronEnv.NODE_ENV = "production"
    /\ cronEnv.CRON_SECRET # JsNull
    /\ authHeader[r] = BearerOf(cronEnv.CRON_SECRET)
    /\ dbEnv = [isDatabaseConfigured |-> TRUE, skipDatabase |-> TRUE]
    /\ response[r].status = 503

\* ------------------------------------------------------------------------
\* C13
\* ------------------------------------------------------------------------

\* C13: whatever fetches and inserts of the five steps throw, a run that
\* passed the checks ends with a response that carries the report; the report
\* has an entry for each of the five steps; an entry has success = true only
\* if nothing of its step threw, and the entry of a step that threw has
\* success = false and the error message.
ReportCoversEveryStep ==
  \A r \in Runs :
    /\ (Over(r) /\ PassedChecks(r) /\ io[r].threw \subseteq DOMAIN ResultsInit)
          => /\ pc[r] = "done"
             /\ response[r].status = 200
    /\ (pc[r] = "done" /\ response[r].status \in {200, 500})
          => /\ DOMAIN response[r].results = DOMAIN ResultsInit
             /\ \A step \in DOMAIN ResultsInit :
                   /\ response[r].results[step].success => step \notin io[r].threw
                   /\ step \in io[r].threw
                        => /\ ~response[r].results[step].success
                           /\ response[r].results[step].message = "Error"

\* C13 witness: the debt fetch or insert threw, the securities step went
\* through, and the report says so
ReportWithOneFailedStep ==
  \E r \in Runs :
    /\ pc[r] = "done"
    /\ response[r].status = 200
    /\ io[r].threw = {"debt"}
    /\ ~response[r].results.debt.success
    /\ response[r].results.securities.success

\* ------------------------------------------------------------------------
\* C14
\* ------------------------------------------------------------------------

\* C14: on the rate-limited routes a request that checkRateLimit denies is
\* answered 429 with Retry-After = ceil(resetIn / 1000) seconds, whatever
\* its parameters, without a store query or an upstream fetch; a request
\* that reached parameter validation, the store or upstream was allowed.
DeniedRequestAnswered429 ==
  routeLast.route \in {"maturity-wall", "auctions"}
    => /\ rlLast.identifier \in {"maturity-wall:c1", "auctions:c1"}
       /\ ~rlLast.result.allowed
            => /\ routeLast.status = 429
               /\ routeLast.retryAfter * 1000 >= rlLast.result.resetIn
               /\ (routeLast.retryAfter - 1) * 1000 < rlLast.result.resetIn
               /\ routeLast.store = "not_reached"
               /\ routeLast.upstream = "not_reached"
               /\ routeLast.upstreamCalls = 0
       /\ (routeLast.status = 400 \/ routeLast.store # "not_reached")
            => rlLast.result.allowed

\* C14 witness: the 61st request of a window opened 600 ms ago is told to
\* retry after 60 seconds
DeniedWithRetryAfter60 ==
  /\ routeLast.route = "auctions"
  /\ routeLast.status = 429
  /\ rlLast.result.resetIn = 59400
  /\ routeLast.retryAfter = 60

\* ------------------------------------------------------------------------
\* C15
\* ------------------------------------------------------------------------

\* C15: however the handlers of concurrent requests interleave at their
\* awaits, the number of requests allowed for one identifier within one
\* window never exceeds the limit.
AllowedPerWindowWithinLimit ==
  \A k \in Keys : allowedInWindow[k] <= RATE_LIMITS.data.limit

\* C15 witness: two requests are suspended at their awaits, the window is
\* full, and a third request made meanwhile was denied
DeniedWhileOthersSuspended ==
  /\ handlers[1] = "store"
  /\ handlers[2] = "fetch"
  /\ handlers[3] = "done"
  /\ rlLast # NoCall
  /\ ~rlLast.result.allowed
  /\ allowedInWindow["maturity-wall:c1"] = RATE_LIMITS.data.limit

\* ------------------------------------------------------------------------
\* C16
\* ------------------------------------------------------------------------

\* the rule list of the claim: keywords and the type they give, in order
TypeRules ==
  << [any |-> {"bill"}, type |-> "BILL", auctionOnly |-> FALSE],
     [any |-> {"tips", "inflation"}, type |-> "TIPS", auctionOnly |-> FALSE],
     [any |-> {"floating", "frn"}, type |-> "FRN", auctionOnly |-> FALSE],
     [any |-> {"cmb", "cash management"}, type |-> "CMB", auctionOnly |-> TRUE],
     [any |-> {"bond"}, type |-> "BOND", auctionOnly |-> FALSE],
     [any |-> {"note"}, type |-> "NOTE", auctionOnly |-> FALSE] >>

\* the rules of the list that apply to the input
MatchingRules(desc, auction) ==
  {i \in DOMAIN TypeRules :
     /\ desc # JsNull
     /\ TypeRules[i].any \cap desc.includes # {}
     /\ TypeRules[i].auctionOnly => auction}

\* C16: normalizeSecurityType and normalizeAuctionSecurityType return the
\* type of the first rule of the list bill, tips/inflation, floating/frn,
\* cmb/cash management (auctions only), bond, note that matches the keywords
\* the input contains, and OTHER (securities) or NOTE (auctions) when no rule
\* matches or the input is empty.
FirstMatchingRuleDecides ==
  call.fn \in {"normalizeSecurityType", "normalizeAuctionSecurityType"}
    => LET auction == call.fn = "normalizeAuctionSecurityType"
           matching == MatchingRules(call.input, auction)
       IN  call.result =
             IF matching = {} THEN (IF auction THEN "NOTE" ELSE "OTHER")
             ELSE TypeRules[CHOOSE i \in matching : \A j \in matching : i <= j].type

\* ------------------------------------------------------------------------
\* C17
\* ------------------------------------------------------------------------

\* the texts of the inputs that are a positive amount, and those that are a
\* number
PositiveAmountTexts == {Text.Amt1250, Text.Amt300, Text.Amt75, Text.Amt40}

NumberTexts == {Text.Ratio250, Text.Ratio180, Text.Ratio310, Text.AmtZero}

\* C17: cleanSecurityRecords returns the cleaned forms of exactly the input
\* records whose outstanding amount is a number > 0, and cleanAuctionRecords
\* of exactly those whose bid-to-cover ratio is a number, in input order;
\* no record stands in for a dropped one, and no row of the securities and
\* auctions tables has a missing or non-positive amount or a missing ratio.
OnlyValidRecordsKept ==
  /\ call.fn = "cleanSecurityRecords"
       => LET kept == SelectSeq(call.input,
                                LAMBDA r : r.outstanding_amt \in PositiveAmountTexts)
          IN  /\ Len(call.result) = Len(kept)
              /\ \A i \in DOMAIN kept :
                    /\ call.result[i] = cleanSecurityRecord(kept[i])
                    /\ call.result[i] # JsNull
                    /\ call.result[i].outstandingAmount.num > 0
  /\ call.fn = "cleanAuctionRecords"
       => LET kept == SelectSeq(call.input,
                                LAMBDA r : r.bid_to_cover_ratio \in NumberTexts)
          IN  /\ Len(call.result) = Len(kept)
              /\ \A i \in DOMAIN kept :
                    /\ call.result[i] = cleanAuctionRecord(kept[i])
                    /\ call.result[i] # JsNull
                    /\ DOMAIN call.result[i].bidToCoverRatio = {"num"}
  /\ \A i \in DOMAIN treasurySecurities :
        /\ treasurySecurities[i].outstandingAmount # JsNull
        /\ treasurySecurities[i].outstandingAmount.dec > 0
  /\ \A i \in DOMAIN treasuryAuctions : treasuryAuctions[i].bidToCoverRatio # JsNull

\* C17 witness: of a record with the ratio "N/A" followed by a valid one,
\* only the valid one comes back
InvalidAuctionDropped ==
  /\ call.fn = "cleanAuctionRecords"
  /\ Len(call.input) = 2
  /\ call.input[1].bid_to_cover_ratio = Text.AmtNA
  /\ call.input[2].bid_to_cover_ratio = Text.Ratio250
  /\ Len(call.result) = 1
  /\ call.result[1].bidToCoverRatio = Num(250)

\* ------------------------------------------------------------------------
\* C18
\* ------------------------------------------------------------------------

\* null or a number that is not negative
NullOrNonNegative(v) == v = JsNull \/ v.num >= 0

\* C18: every monetary amount of every cleaned security, auction, debt
\* snapshot and indicator record is null or a non-negative number, whatever
\* the raw text, a leading minus sign included.
AmountsNeverNegative ==
  /\ call.fn = "cleanSecurityRecords"
       => \A i \in DOMAIN call.result : NullOrNonNegative(call.result[i].outstandingAmount)
  /\ call.fn = "cleanAuctionRecords"
       => \A i \in DOMAIN call.result :
            \A f \in {"offeringAmount", "acceptedAmount", "totalTendersAccepted",
                       "directBidderAccepted", "indirectBidderAccepted",
                       "primaryDealerAccepted"} :
              NullOrNonNegative(call.result[i][f])
  /\ (call.fn = "cleanDebtRecord" /\ call.result # JsNull)
       => \A f \in {"totalPublicDebt", "debtHeldByPublic", "intragovernmentalHoldings"} :
            NullOrNonNegative(call.result[f])
  /\ (call.fn = "cleanEconomicIndicators" /\ call.result # JsNull)
       => NullOrNonNegative(call.result.interestExpense)

\* ------------------------------------------------------------------------
\* C19
\* ------------------------------------------------------------------------

\* numbers added up from left to right
RECURSIVE PlusAll(_, _)
PlusAll(acc, numbers) ==
  IF numbers = <<>> THEN acc ELSE PlusAll(Plus(acc, Head(numbers)), Tail(numbers))

\* the amounts of the securities maturing in the years from..to, in list order
AmountsMaturing(securities, from, to) ==
  LET within == SelectSeq(securities,
                          LAMBDA x : /\ x.maturityYear # JsNull
                                     /\ x.maturityYear.int \in from..to)
  IN  [i \in DOMAIN within |-> within[i].outstandingAmount.num]

\* one bucket per year of the range, in ascending order
OneBucketPerYear ==
  /\ Len(call.result) = call.input.endYear - call.input.startYear + 1
  /\ \A i \in DOMAIN call.result : call.result[i].year = call.input.startYear + i - 1

\* C19 as stated: aggregateMaturityWall returns one bucket per year of the
\* range in ascending order, and the sum of the buckets' totals equals the
\* sum of outstandingAmount over the securities maturing in the range.
BucketTotalsSumToListSum ==
  call.fn = "aggregateMaturityWall"
    => /\ OneBucketPerYear
       /\ PlusAll(0, [i \in DOMAIN call.result |-> call.result[i].total])
            = PlusAll(0, AmountsMaturing(call.input.securities, call.input.startYear,
                                         call.input.endYear))

\* C19 amended: aggregateMaturityWall returns one bucket per year of the
\* range in ascending order, all-zero buckets included; the total of a bucket
\* is the sum, added up in list order, of outstandingAmount over the
\* securities maturing in its year, so a security with a null or out-of-range
\* year adds to no bucket; the sum of the totals equals the sum over the list
\* whenever no addition has to round.
BucketTotalsAreYearSums ==
  call.fn = "aggregateMaturityWall"
    => /\ OneBucketPerYear
       /\ \A i \in DOMAIN call.result :
             call.result[i].total =
               PlusAll(0, AmountsMaturing(call.input.securities, call.result[i].year,
                                          call.result[i].year))
       /\ Sum(AmountsMaturing(call.input.securities, call.input.startYear,
                              call.input.endYear)) < 2 ^ MantissaBits
            => Sum([i \in DOMAIN call.result |-> call.result[i].total])
                 = Sum(AmountsMaturing(call.input.securities, call.input.startYear,
                                       call.input.endYear))

\* C19 witness: three securities over two years of a three-year range, the
\* third year's bucket all zero, and the totals adding up to something else
\* than the amounts of the list do
RoundedSumsDiffer ==
  /\ call.fn = "aggregateMaturityWall"
  /\ Len(call.input.securities) = 3
  /\ Len(call.result) = 3
  /\ call.result[1].total > 0
  /\ call.result[2].total > 0
  /\ call.result[3].total = 0
  /\ PlusAll(0, [i \in DOMAIN call.result |-> call.result[i].total])
       # PlusAll(0, AmountsMaturing(call.input.securities, 2026, 2028))

\* ------------------------------------------------------------------------
\* C20
\* ------------------------------------------------------------------------

\* the records of the pages, one page after the other
RECURSIVE Concatenated(_)
Concatenated(pages) ==
  IF pages = <<>> THEN <<>> ELSE Head(pages).data \o Concatenated(Tail(pages))

\* pages 1, 2, 3, ... were requested in that order, one at a time, each
\* answered page is in allData in that order, every request after the first
\* came at least the delay after the page before it was received, and no
\* page was requested after one without a next link
PagedInOrder ==
  /\ \A i \in DOMAIN pager.requested : pager.requested[i] = i
  /\ pager.outstanding = IF pager.pc = "fetching" THEN 1 ELSE 0
  /\ Len(pager.requested) = Len(pager.received) + pager.outstanding
                              + IF pager.pc = "threw" THEN 1 ELSE 0
  /\ \A i \in DOMAIN pager.received : pager.received[i].page = i
  /\ pager.allData = Concatenated(pager.received)
  /\ Len(pager.waited) = IF pager.requested = <<>> THEN 0 ELSE Len(pager.requested) - 1
  /\ \A i \in DOMAIN pager.waited : pager.waited[i] >= RATE_LIMIT_DELAY
  /\ \A i \in DOMAIN pager.received :
        pager.received[i].next = JsNull => i = Len(pager.requested)

\* a page without a next link has been received
LastPageReceived ==
  \E i \in DOMAIN pager.received : pager.received[i].next = JsNull

\* C20 as stated: fetchAllPages requests pages 1, 2, 3, ... in order and one
\* at a time, appends each page's records in that order, waits the delay
\* between successive requests, stops after the first page without a next
\* link, and has terminated exactly when such a page has been received.
TerminatedExactlyAfterLastPage ==
  /\ PagedInOrder
  /\ pager.pc \in {"returned", "threw"} <=> LastPageReceived

\* C20 amended: fetchAllPages requests pages 1, 2, 3, ... in order and one
\* at a time, appends each page's records in that order, waits the delay
\* between successive requests and stops after the first page without a next
\* link; it has returned exactly when such a page has been received, and it
\* returns in some behaviour exactly when one is received in it; a response
\* that is not ok ends it by an exception, with no result; a pending timer
\* leads to the next request.
ReturnedExactlyAfterLastPage ==
  /\ [](PagedInOrder /\ (pager.pc = "returned" <=> LastPageReceived))
  /\ [](pager.pc = "threw" => ~LastPageReceived)
  /\ <>LastPageReceived => <>(pager.pc = "returned")
  /\ <>(pager.pc = "returned") => <>LastPageReceived
  /\ (pager.pc = "waiting" /\ pager.page <= MaxPages) ~> (pager.pc = "fetching")

\* C20 witness: three pages were requested and received, the third without a
\* next link, the second empty, after waits of 100 and 150 ms, and the
\* function has returned the records of the first and the third
ThreePagesReturned ==
  /\ pager.pc = "returned"
  /\ pager.requested = <<1, 2, 3>>
  /\ pager.waited = <<100, 150>>
  /\ pager.allData = <<<<1, 1>>, <<1, 2>>, <<3, 1>>>>

\* ------------------------------------------------------------------------
\* C21
\* ------------------------------------------------------------------------

\* the requests that did not end in an ok response
FailedRequests == {i \in DOMAIN pager.settled : pager.settled[i] # "ok"}

\* C21: a response that is not ok, or a fetch that fails, on a single-page
\* call or on any page of fetchAllPages ends the call with an error: the
\* failed request was the last one and no page was requested twice, the
\* caller gets no list, however many records had been received, and nothing
\* happens in the call afterwards.
FailedFetchAborts ==
  /\ [](FailedRequests # {} =>
          /\ pager.pc = "threw"
          /\ FailedRequests = {Len(pager.requested)}
          /\ \A i, j \in DOMAIN pager.requested :
                pager.requested[i] = pager.requested[j] => i = j
          /\ pager.result = Undefined)
  /\ [](pager.pc = "threw" => FailedRequests # {})
  /\ [][pager.pc = "threw" => pager' = pager]_vars

\* C21 witness: the second page of fetchAllPages came back not ok after the
\* first had brought two records, and the caller got the error only
SecondPageFailedNothingReturned ==
  /\ pager.fn = "fetchAllPages"
  /\ pager.pc = "threw"
  /\ pager.settled = <<"ok", "not_ok">>
  /\ Len(pager.allData) = 2
  /\ pager.result = Undefined

\* ------------------------------------------------------------------------
\* C22
\* ------------------------------------------------------------------------

\* C22: over the getDb calls of a behaviour the handle is created at most
\* once; once createDb has thrown, it is not called again and getDb goes on
\* answering null.
StoreCreatedOnceFailureSticks ==
  /\ dbCreations <= 1
  /\ dbFailures > 0 => /\ dbFailures + dbCreations = 1
                       /\ dbHandle = JsNull

\* ------------------------------------------------------------------------
\* C23
\* ------------------------------------------------------------------------

\* C23: every checkRateLimit call, each identifier being checked with its
\* own configuration, answers with the allowed, remaining and resetIn that
\* a limiter given the same calls and never sweeping its map answers with.
SweepNeverChangesAnswers ==
  rlLast # NoCall => rlLast.result = rlLast.unswept

\* ------------------------------------------------------------------------
\* C24
\* ------------------------------------------------------------------------

\* C24: no step of a run changes or removes a row that is in a table: each
\* table, the job log included, keeps its rows, with every field as written,
\* and only gets rows added after them.
RowsOnlyAdded ==
  [][/\ IsPrefix(treasurySecurities, treasurySecurities')
     /\ IsPrefix(treasuryAuctions, treasuryAuctions')
     /\ IsPrefix(dailyDebtSnapshots, dailyDebtSnapshots')
     /\ IsPrefix(economicIndicators, economicIndicators')
     /\ IsPrefix(maturityWallAggregates, maturityWallAggregates')
     /\ IsPrefix(etlJobLog, etlJobLog')]_vars

\* C24 witness: a second run over the same data has completed; the job log
\* has the `started` and `completed` rows of both runs, the first run's
\* still as written, and the tables have rows
TwoRunsFourLogRows ==
  /\ \A r \in Runs : pc[r] = "done" /\ response[r].status = 200
  /\ Len(etlJobLog) = 4
  /\ etlJobLog[1] = JobLogRow(1, "started", 0)
  /\ etlJobLog[2].status = "completed" /\ etlJobLog[2].run = 1
  /\ etlJobLog[3] = JobLogRow(2, "started", 0)
  /\ treasurySecurities # <<>> /\ treasuryAuctions # <<>>
  /\ dailyDebtSnapshots # <<>> /\ economicIndicators # <<>>

\* ------------------------------------------------------------------------
\* C25
\* ------------------------------------------------------------------------

\* C25: a GET /auctions request that the store answers (source "database")
\* gets a data list that is not empty: a request whose rows of the
\* timeframe, of the types asked for and with a ratio above zero number
\* zero is served from upstream.
StoreAnswerNeverEmpty ==
  /\ routeLast.route \in {"auctions", "auctions-legacy"}
  /\ routeLast.status = 200
  /\ routeLast.body.source = "database"
  => routeLast.body.data # <<>>

\* ------------------------------------------------------------------------
\* C26
\* ------------------------------------------------------------------------

\* the store holds what a run of the job stored from the records upstream
\* serves, and upstream would answer
SameRecordsBothPaths ==
  /\ routeLast.route \in {"maturity-wall", "auctions"}
  /\ routeLast.servedFrom = "store"
  /\ routeLast.upstream = "full"
  /\ treasurySecurities = Ingested.securities
  /\ treasuryAuctions = Ingested.auctions

\* C26: on /maturity-wall and /auctions, a request answered from the store
\* gets the data points, in the order, with the fields and the stats that
\* the live path computes for it from the same records; the two answers
\* differ in meta.source only.
StoreAnswerEqualsLiveAnswer ==
  SameRecordsBothPaths =>
    [routeLast.body EXCEPT !.source = "api"] = routeLast.live.body

\* ------------------------------------------------------------------------
\* C27
\* ------------------------------------------------------------------------

\* C27: a run whose aggregates step reports success has computed the
\* maturity-wall aggregates and stored their rows, one per computed date
\* and maturity year.
AggregatesStoredWhenReported ==
  \A r \in Runs :
    results[r].aggregates.success =>
      /\ maturityWallAggregates # <<>>
      /\ \A i, j \in DOMAIN maturityWallAggregates :
            /\ maturityWallAggregates[i].computedDate = maturityWallAggregates[j].computedDate
            /\ maturityWallAggregates[i].maturityYear = maturityWallAggregates[j].maturityYear
            => i = j

\* ------------------------------------------------------------------------
\* C28
\* ------------------------------------------------------------------------

\* run r leaves the insert loop of `step` through the catch block
ChunkInsertThrows(r, step, insertPc) ==
  /\ pc[r] = insertPc
  /\ pc'[r] # insertPc
  /\ step \in io'[r].threw

\* the rows of the securities and auctions tables
RowsPersisted == Len(treasurySecurities) + Len(treasuryAuctions)

\* C28: when the insert of a chunk of the securities or auctions batch
\* throws, the rows of the chunks inserted before it stay in the table, the
\* step reports success false with count 0, no later chunk is inserted, and
\* the `completed` row's recordsProcessed is the sum of the two reported
\* counts, whatever the tables hold.
ChunkFailureKeepsEarlierChunks ==
  /\ [][\A r \in Runs :
          /\ ChunkInsertThrows(r, "securities", "securities_insert")
               => /\ treasurySecurities' = treasurySecurities
                  /\ results'[r].securities = [success |-> FALSE, message |-> "Error", count |-> 0]
          /\ ChunkInsertThrows(r, "auctions", "auctions_insert")
               => /\ treasuryAuctions' = treasuryAuctions
                  /\ results'[r].auctions = [success |-> FALSE, message |-> "Error", count |-> 0]
          /\ "securities" \in io[r].threw
               => /\ treasurySecurities' = treasurySecurities
                  /\ results'[r].securities = results[r].securities
          /\ "auctions" \in io[r].threw
               => /\ treasuryAuctions' = treasuryAuctions
                  /\ results'[r].auctions = results[r].auctions]_vars
  /\ [](\A i \in DOMAIN etlJobLog :
          etlJobLog[i].status = "completed"
            => etlJobLog[i].recordsProcessed
                 = results[etlJobLog[i].run].securities.count
                   + results[etlJobLog[i].run].auctions.count)

\* C28 witness: the second chunk of the securities batch threw after the
\* first had been stored; the run completed with count 0 for the step, and
\* its `completed` row counts fewer records than the run stored rows
FewerRecordsReportedThanStored ==
  /\ pc[1] = "done" /\ response[1].status = 200
  /\ "securities" \in io[1].threw
  /\ results[1].securities.count = 0
  /\ Len(treasurySecurities) = ChunkSize
  /\ \E i \in DOMAIN etlJobLog :
        /\ etlJobLog[i].status = "completed"
        /\ etlJobLog[i].recordsProcessed < RowsPersisted

\* ------------------------------------------------------------------------
\* C29
\* ------------------------------------------------------------------------

\* what has thrown in run r outside the try/catch of a step
ThrownOutsideSteps(r) == io[r].threw \cap {"revalidate", "log_completed", "log_failed"}

\* C29: a run that went through its steps and in which nothing outside the
\* steps' own try/catch threw writes a `completed` row and answers 200 with
\* success true, whichever steps failed; a run answers 500, with a `failed`
\* row, only when a revalidation or the insert of the `completed` row threw.
TerminalStatusIgnoresSteps ==
  \A r \in Runs :
    /\ pc[r] = "done" /\ PassedChecks(r) /\ ThrownOutsideSteps(r) = {}
         => /\ response[r].status = 200 /\ response[r].success
            /\ \E i \in TerminalRows(r) : etlJobLog[i].status = "completed"
    /\ pc[r] = "done" /\ response[r].status = 500
         => /\ ThrownOutsideSteps(r) \cap {"revalidate", "log_completed"} # {}
            /\ \E i \in TerminalRows(r) : etlJobLog[i].status = "failed"
    /\ (\E i \in TerminalRows(r) : etlJobLog[i].status = "failed")
         => ThrownOutsideSteps(r) \cap {"revalidate", "log_completed"} # {}

\* C29 witness: the four fetch and persist steps all threw, and the run
\* wrote a `completed` row and answered 200 with success true
AllStepsFailedRunCompleted ==
  /\ pc[1] = "done"
  /\ {"debt", "securities", "auctions", "indicators"} \subseteq io[1].threw
  /\ \A step \in {"debt", "securities", "auctions", "indicators"} : ~results[1][step].success
  /\ response[1].status = 200 /\ response[1].success
  /\ \E i \in TerminalRows(1) : etlJobLog[i].status = "completed"

\* ------------------------------------------------------------------------
\* C30
\* ------------------------------------------------------------------------

\* the rows of run r in the job log, by status
LogRows(r, statuses) ==
  {i \in 1..Len(etlJobLog) : etlJobLog[i].run = r /\ etlJobLog[i].status \in statuses}

\* the two runs were in their steps at the same time: each wrote its
\* `started` row before the other wrote its terminal row
RunsOverlapped ==
  \A r, q \in Runs :
    \A i \in LogRows(r, {"started"}), j \in LogRows(q, {"completed", "failed"}) : i < j

\* C30: when two overlapping runs over the same upstream data, in which no
\* fetch and no statement failed, have both returned, no table holds two
\* rows with the same natural key, and the job log holds one `started` row
\* and one terminal row for each run, however the two runs interleaved.
OverlappingRunsLeaveOneRunsRows ==
  (/\ \A r \in Runs : pc[r] = "done" /\ response[r].status = 200
   /\ faults = 0
   /\ RunsOverlapped)
  =>
  /\ NoDuplicateKey(treasurySecurities, "recordDate", TRUE)
  /\ NoDuplicateKey(treasuryAuctions, "auctionDate", TRUE)
  /\ NoDuplicateKey(dailyDebtSnapshots, "recordDate", FALSE)
  /\ NoDuplicateKey(economicIndicators, "recordDate", FALSE)
  /\ \A r \in Runs :
       /\ Cardinality(LogRows(r, {"started"})) = 1
       /\ Cardinality(LogRows(r, {"completed", "failed"})) = 1

====
